---- MODULE Spec2Model ----
(***************************************************************************)
(* Satellite control system: the Security Monitor's mediation pipeline     *)
(* (SecurityMonitorImpl._proceed), the RestrictedZone geometry it depends  *)
(* on, and the command producers (InterpreterImpl, CommandFactory).        *)
(*                                                                         *)
(* Python values are modelled as records of one shape per role so that     *)
(* values of different dynamic types can sit in the same field:            *)
(*   element     [t, v]                  t = "num" (int/float) or "str"     *)
(*   parameters  [kind, items, zone, id] kind = none/tuple/list/zone/int    *)
(*   extra       [kind, d]               kind = none/dict/int, d the dict   *)
(*   signature   [kind, user, n]         an f-string "<kind>_<user>_<n>"    *)
(* Coordinates are whole degrees.                                          *)
(***************************************************************************)
EXTENDS Integers, Sequences, FiniteSets, TLC

VARIABLES
    restricted_zones,   \* SecurityMonitorImpl._restricted_zones: zone_id -> zone
    violations,         \* SecurityMonitorImpl._violations: user -> count
    queues,             \* the channels of the directory: name -> sequence of events
    registered,         \* the names the directory resolves to a channel
    handled,            \* the events the monitor has dequeued and handled, in order
    raised,             \* whether the last call of _proceed ended in an exception
    nlogs,              \* number of _log_message calls made by _proceed so far
    command_counter,    \* InterpreterImpl.command_counter
    role,               \* InterpreterImpl.role
    processed,          \* the commands InterpreterImpl.run has gone through, with results
    issued,             \* number of calls made from outside the monitor (commands, accessors)
    snapshot,           \* the mapping a caller got from get_violation_stats()
    pending,            \* per producer process, the events it has still to put
    ctor_args,          \* arguments of a call of RestrictedZone(...)
    the_zone,           \* the zone that call built
    ctor_error,         \* how that call ended
    data,               \* the dictionary zone.to_dict() returned
    restored,           \* the zone RestrictedZone.from_dict(data) built
    restored_error,     \* how from_dict ended
    query,              \* the last call of zone.contains / get_area and its result
    other,              \* a second zone, and the result of zone.intersects(other)
    orbit,              \* the OrbitControl process: its queues, _quit, where its loop is
    sched               \* the CommandScheduler: its schedule, clock and thread

vars == <<restricted_zones, violations, queues, registered, handled, raised,
          nlogs, command_counter, role, processed, issued, snapshot, pending,
          ctor_args, the_zone, ctor_error, data, restored, restored_error, query, other,
          orbit, sched>>

monitorVars == <<restricted_zones, violations, handled, nlogs>>
clientVars == <<command_counter, role, processed, issued>>
zoneVars == <<ctor_args, the_zone, ctor_error, data, restored, restored_error, query, other>>
procVars == <<orbit, sched>>
auxVars == <<snapshot, pending, zoneVars, procVars>>

-----------------------------------------------------------------------------
(* Bounds of the model *)

\* events the monitor handles in one behaviour
MaxEvents == 3

\* commands the producers run in one behaviour
MaxCommands == 3

-----------------------------------------------------------------------------
(* Channel names (src.system.config) and identities *)

ORBIT_DRAWER_QUEUE_NAME == "orbit_drawer"
SECURITY_MONITOR_QUEUE_NAME == "security_monitor"
ORBIT_CONTROL_QUEUE_NAME == "orbit_control"
OPTICS_CONTROL_QUEUE_NAME == "optics_control"
SATELITE_QUEUE_NAME == "satellite"
CAMERA_QUEUE_NAME == "camera"

ChannelNames ==
    {ORBIT_DRAWER_QUEUE_NAME, SECURITY_MONITOR_QUEUE_NAME, ORBIT_CONTROL_QUEUE_NAME,
     OPTICS_CONTROL_QUEUE_NAME, SATELITE_QUEUE_NAME, CAMERA_QUEUE_NAME}

\* BaseSecurityMonitor._event_source_name
MonitorSourceName == SECURITY_MONITOR_QUEUE_NAME

-----------------------------------------------------------------------------
(* Python values *)

Num(v) == [t |-> "num", v |-> v]
Str(v) == [t |-> "str", v |-> v]

EmptyDict == [k \in {} |-> ""]

NoZone ==
    [zone_id |-> 0, lat_bot_left |-> 0, lon_bot_left |-> 0, lat_top_right |-> 0,
     lon_top_right |-> 0, description |-> "", severity_level |-> 0]

PNone == [kind |-> "none", items |-> <<>>, zone |-> NoZone, id |-> 0]
PTuple(items) == [kind |-> "tuple", items |-> items, zone |-> NoZone, id |-> 0]
PList(items) == [kind |-> "list", items |-> items, zone |-> NoZone, id |-> 0]
PZone(z) == [kind |-> "zone", items |-> <<>>, zone |-> z, id |-> 0]
PInt(n) == [kind |-> "int", items |-> <<>>, zone |-> NoZone, id |-> n]

XNone == [kind |-> "none", d |-> EmptyDict]
XDict(d) == [kind |-> "dict", d |-> d]
XInt == [kind |-> "int", d |-> EmptyDict]

NoSig == [kind |-> "none", user |-> "", n |-> 0]
Sig(kind, user, n) == [kind |-> kind, user |-> user, n |-> n]

\* src.system.event_types.Event
Event(source, destination, operation, parameters, extra_parameters, signature) ==
    [source |-> source, destination |-> destination, operation |-> operation,
     parameters |-> parameters, extra_parameters |-> extra_parameters,
     signature |-> signature]

-----------------------------------------------------------------------------
(* RestrictedZone *)

\* the normalisation (lon + 360) % 360 used by __init__, contains and get_area
NormLon(lon) == (lon + 360) % 360

\* a constructor without the longitude-order check
InitErrorNoLonOrder(lat_bot_left, lon_bot_left, lat_top_right, lon_top_right, severity_level) ==
    IF ~(-90 <= lat_bot_left /\ lat_bot_left <= 90
         /\ -90 <= lat_top_right /\ lat_top_right <= 90)
    THEN "latitude_range"
    ELSE IF ~(-180 <= lon_bot_left /\ lon_bot_left <= 180
              /\ -180 <= lon_top_right /\ lon_top_right <= 180)
    THEN "longitude_range"
    ELSE IF lat_bot_left >= lat_top_right
    THEN "latitude_order"
    ELSE IF ~(1 <= severity_level /\ severity_level <= 3)
    THEN "severity"
    ELSE "ok"

\* a constructor that lets a degenerate box (equal latitudes) through
InitErrorLaxLatitude(lat_bot_left, lon_bot_left, lat_top_right, lon_top_right, severity_level) ==
    IF ~(-90 <= lat_bot_left /\ lat_bot_left <= 90
         /\ -90 <= lat_top_right /\ lat_top_right <= 90)
    THEN "latitude_range"
    ELSE IF ~(-180 <= lon_bot_left /\ lon_bot_left <= 180
              /\ -180 <= lon_top_right /\ lon_top_right <= 180)
    THEN "longitude_range"
    ELSE IF lat_bot_left > lat_top_right
    THEN "latitude_order"
    ELSE IF NormLon(lon_bot_left) >= NormLon(lon_top_right)
    THEN "longitude_order"
    ELSE IF ~(1 <= severity_level /\ severity_level <= 3)
    THEN "severity"
    ELSE "ok"

\* RestrictedZone.__init__: "ok", or the check that raises ValueError, in the
\* order the constructor makes them
InitError(lat_bot_left, lon_bot_left, lat_top_right, lon_top_right, severity_level) ==
    IF ~(-90 <= lat_bot_left /\ lat_bot_left <= 90
         /\ -90 <= lat_top_right /\ lat_top_right <= 90)
    THEN "latitude_range"
    ELSE IF ~(-180 <= lon_bot_left /\ lon_bot_left <= 180
              /\ -180 <= lon_top_right /\ lon_top_right <= 180)
    THEN "longitude_range"
    ELSE IF lat_bot_left >= lat_top_right
    THEN "latitude_order"
    ELSE IF NormLon(lon_bot_left) >= NormLon(lon_top_right)
    THEN "longitude_order"
    ELSE IF ~(1 <= severity_level /\ severity_level <= 3)
    THEN "severity"
    ELSE "ok"

\* the object __init__ leaves behind when no check raises
RestrictedZone(zone_id, lat_bot_left, lon_bot_left, lat_top_right, lon_top_right, description, severity_level) ==
    [zone_id |-> zone_id, lat_bot_left |-> lat_bot_left, lon_bot_left |-> lon_bot_left,
     lat_top_right |-> lat_top_right, lon_top_right |-> lon_top_right,
     description |-> description, severity_level |-> severity_level]

Constructible(z) ==
    InitError(z.lat_bot_left, z.lon_bot_left, z.lat_top_right, z.lon_top_right,
              z.severity_level) = "ok"

\* RestrictedZone.contains on numeric arguments
Contains(z, lat, lon) ==
    LET lat_in_range == z.lat_bot_left <= lat /\ lat <= z.lat_top_right
        lon_normalized == NormLon(lon)
        lon_left_normalized == NormLon(z.lon_bot_left)
        lon_right_normalized == NormLon(z.lon_top_right)
        lon_in_range ==
            IF lon_left_normalized <= lon_right_normalized
            THEN lon_left_normalized <= lon_normalized
                 /\ lon_normalized <= lon_right_normalized
            ELSE lon_normalized >= lon_left_normalized
                 \/ lon_normalized <= lon_right_normalized
    IN  lat_in_range /\ lon_in_range

\* RestrictedZone.contains raises TypeError when an argument is not a number:
\* float <= str in the latitude test, str + 360 in the longitude test
ContainsRaises(lat, lon) == lat.t # "num" \/ lon.t # "num"

\* the test `lon_left_normalized <= lon_right_normalized` of contains and
\* get_area fails: the call takes the branch written for zones across the
\* date line
WrapBranch(z) == ~(NormLon(z.lon_bot_left) <= NormLon(z.lon_top_right))

Abs(n) == IF n < 0 THEN -n ELSE n

\* RestrictedZone.get_center, in half degrees: the sums the code divides by 2
GetCenter(z) == <<z.lat_bot_left + z.lat_top_right, z.lon_bot_left + z.lon_top_right>>

\* RestrictedZone.contains on a point given in half degrees, as get_center
\* yields it: every comparison of contains, on doubled values
ContainsHalfDegrees(z, lat2, lon2) ==
    LET lat_in_range == 2 * z.lat_bot_left <= lat2 /\ lat2 <= 2 * z.lat_top_right
        lon_normalized == (lon2 + 720) % 720
        lon_left_normalized == 2 * NormLon(z.lon_bot_left)
        lon_right_normalized == 2 * NormLon(z.lon_top_right)
        lon_in_range ==
            IF lon_left_normalized <= lon_right_normalized
            THEN lon_left_normalized <= lon_normalized
                 /\ lon_normalized <= lon_right_normalized
            ELSE lon_normalized >= lon_left_normalized
                 \/ lon_normalized <= lon_right_normalized
    IN  lat_in_range /\ lon_in_range

\* RestrictedZone.get_area
GetArea(z) ==
    LET lat_range == Abs(z.lat_top_right - z.lat_bot_left)
        lon_left_normalized == NormLon(z.lon_bot_left)
        lon_right_normalized == NormLon(z.lon_top_right)
        lon_range ==
            IF lon_left_normalized <= lon_right_normalized
            THEN lon_right_normalized - lon_left_normalized
            ELSE (360 - lon_left_normalized) + lon_right_normalized
    IN  lat_range * lon_range

\* RestrictedZone.get_severity_description: descriptions.get(level, unknown);
\* the three texts and the fallback are named by their level
GetSeverityDescription(z) ==
    CASE z.severity_level = 1 -> "low"
      [] z.severity_level = 2 -> "medium"
      [] z.severity_level = 3 -> "high"
      [] OTHER -> "unknown"

\* RestrictedZone.to_dict
ToDict(z) ==
    [zone_id |-> z.zone_id, lat_bot_left |-> z.lat_bot_left, lon_bot_left |-> z.lon_bot_left,
     lat_top_right |-> z.lat_top_right, lon_top_right |-> z.lon_top_right,
     description |-> z.description, severity_level |-> z.severity_level,
     center |-> GetCenter(z), area |-> GetArea(z),
     severity_description |-> GetSeverityDescription(z)]

\* a from_dict that leaves severity_level at the constructor's default
FromDictArgsDefaultSeverity(d) ==
    [zone_id |-> d.zone_id, lat_bot_left |-> d.lat_bot_left, lon_bot_left |-> d.lon_bot_left,
     lat_top_right |-> d.lat_top_right, lon_top_right |-> d.lon_top_right,
     description |-> d.description, severity_level |-> 1]

\* RestrictedZone.from_dict: the keyword arguments it hands to the constructor
FromDictArgs(d) ==
    [zone_id |-> d.zone_id, lat_bot_left |-> d.lat_bot_left, lon_bot_left |-> d.lon_bot_left,
     lat_top_right |-> d.lat_top_right, lon_top_right |-> d.lon_top_right,
     description |-> d.description, severity_level |-> d.severity_level]

\* RestrictedZone.intersects
Intersects(a, b) ==
    IF a.lat_top_right < b.lat_bot_left \/ a.lat_bot_left > b.lat_top_right
    THEN FALSE
    ELSE IF a.lon_top_right < b.lon_bot_left /\ a.lon_bot_left > b.lon_top_right
    THEN FALSE
    ELSE TRUE

-----------------------------------------------------------------------------
(* Parts of the state a specification does not use stay at these values *)

NoArgs == [zone_id |-> 0, lat_bot_left |-> 0, lon_bot_left |-> 0, lat_top_right |-> 0,
           lon_top_right |-> 0, description |-> "", severity_level |-> 0]
NoData ==
    [zone_id |-> 0, lat_bot_left |-> 0, lon_bot_left |-> 0, lat_top_right |-> 0,
     lon_top_right |-> 0, description |-> "", severity_level |-> 0,
     center |-> <<0, 0>>, area |-> 0, severity_description |-> ""]
NoSnapshot == [calls |-> 0, writes |-> 0, live |-> FALSE, d |-> EmptyDict]
NoQuery == [op |-> "none", lat |-> 0, lon |-> 0, holds |-> FALSE, area |-> 0, wrap |-> FALSE]
NoOther == [zone |-> NoZone, called |-> FALSE, result |-> FALSE, reverse |-> FALSE]

ZoneIdle ==
    /\ ctor_args = NoArgs
    /\ the_zone = NoZone
    /\ ctor_error = "not called"
    /\ data = NoData
    /\ restored = NoZone
    /\ restored_error = "not called"
    /\ query = NoQuery
    /\ other = NoOther

\* no OrbitControl process and no CommandScheduler were created
NoOrbit ==
    [quit |-> FALSE, pc |-> "not created", control_q |-> <<>>, inflight |-> <<>>,
     taken |-> <<>>, sent |-> 0]
NoSched ==
    [scheduled_commands |-> <<>>, executed_commands |-> {}, ran |-> <<>>, elapsed |-> 0,
     running |-> FALSE, thread |-> "not started", added |-> 0]

ProcIdle == orbit = NoOrbit /\ sched = NoSched

AuxIdle ==
    /\ snapshot = NoSnapshot
    /\ pending = <<>>
    /\ ZoneIdle
    /\ ProcIdle

-----------------------------------------------------------------------------
(* The channel directory and the base monitor *)

\* QueuesDirectory.get_queue: whether the name resolves to a channel (else None)
GetQueue(reg, name) == name \in reg

\* one q.put(ev) on the channel called name
Put(name, ev) == <<[q |-> name, ev |-> ev]>>

\* BaseSecurityMonitor._proceed: relay the event, unchanged, to the channel its
\* destination names; nothing when no such channel is registered
BaseProceed(e, reg) == IF GetQueue(reg, e.destination) THEN Put(e.destination, e) ELSE <<>>

-----------------------------------------------------------------------------
(* SecurityMonitorImpl._proceed *)

\* `q = self._queues_dir.get_queue(ORBIT_DRAWER_QUEUE_NAME); if q: q.put(ev)`
PutToDrawerBypass(reg, ev) == Put(ORBIT_DRAWER_QUEUE_NAME, ev)

PutToDrawer(reg, ev) ==
    IF GetQueue(reg, ORBIT_DRAWER_QUEUE_NAME) THEN Put(ORBIT_DRAWER_QUEUE_NAME, ev) ELSE <<>>

\* the if / elif / elif / else chain on event.operation
BranchNoDefault(op) ==
    IF op = "post_photo_check" \/ op = "update_photo_map" THEN "photo"
    ELSE IF op = "add_restricted_zone" THEN "add"
    ELSE IF op = "remove_restricted_zone" THEN "remove"
    ELSE "none"

Branch(op) ==
    IF op = "post_photo_check" \/ op = "update_photo_map" THEN "photo"
    ELSE IF op = "add_restricted_zone" THEN "add"
    ELSE IF op = "remove_restricted_zone" THEN "remove"
    ELSE "default"

\* Python truth value of event.parameters
Truthy(p) ==
    CASE p.kind = "none" -> FALSE
      [] p.kind \in {"tuple", "list"} -> Len(p.items) > 0
      [] p.kind = "int" -> p.id # 0
      [] OTHER -> TRUE

\* event.parameters and isinstance(event.parameters, (tuple, list)) and len(...) >= 2
WellFormedPoint(p) == Truthy(p) /\ p.kind \in {"tuple", "list"} /\ Len(p.items) >= 2

\* the loop over self._restricted_zones.values() with zone.contains(lat, lon);
\* the zone the loop stops at (dict order) only decides the id in the log line
InRestrictedZoneNever(zs, lat, lon) == \E k \in DOMAIN zs \ DOMAIN zs : Contains(zs[k], lat, lon)

InRestrictedZone(zs, lat, lon) == \E k \in DOMAIN zs : Contains(zs[k], lat, lon)

\* Python truth value of event.extra_parameters
ExtraTruthy(x) ==
    CASE x.kind = "none" -> FALSE
      [] x.kind = "dict" -> DOMAIN x.d # {}
      [] OTHER -> TRUE

\* `'user' in event.extra_parameters` raises TypeError on a non-container
UserLookupRaises(x) == ExtraTruthy(x) /\ x.kind = "int"

\* user = "unknown"; if extra_parameters and 'user' in extra_parameters: user = ...['user']
UserOf(x) == IF ExtraTruthy(x) /\ "user" \in DOMAIN x.d THEN x.d["user"] ELSE "unknown"

\* self._violations[user] = self._violations.get(user, 0) + 1
CountViolationTwice(viol, user) ==
    [u \in DOMAIN viol \cup {user} |->
        IF u = user THEN (IF user \in DOMAIN viol THEN viol[user] ELSE 0) + 2 ELSE viol[u]]

CountViolationForgetOthers(viol, user) ==
    (user :> ((IF user \in DOMAIN viol THEN viol[user] ELSE 0) + 1))

CountViolation(viol, user) ==
    [u \in DOMAIN viol \cup {user} |->
        IF u = user THEN (IF user \in DOMAIN viol THEN viol[user] ELSE 0) + 1 ELSE viol[u]]

\* the event forwarded for a photo outside every zone
PhotoMapEventNoSignature(e, lat, lon) ==
    Event(MonitorSourceName, ORBIT_DRAWER_QUEUE_NAME, "update_photo_map",
          PTuple(<<lat, lon>>), e.extra_parameters, NoSig)

PhotoMapEvent(e, lat, lon) ==
    Event(MonitorSourceName, ORBIT_DRAWER_QUEUE_NAME, "update_photo_map",
          PTuple(<<lat, lon>>), e.extra_parameters, e.signature)

\* isinstance(zone, RestrictedZone)
IsZoneInstanceAny(p) == TRUE

IsZoneInstance(p) == p.kind = "zone"

\* self._restricted_zones[zone.zone_id] = zone
AddZoneKeepFirst(zs, zone) ==
    [k \in DOMAIN zs \cup {zone.zone_id} |-> IF k \in DOMAIN zs THEN zs[k] ELSE zone]

AddZone(zs, zone) ==
    [k \in DOMAIN zs \cup {zone.zone_id} |-> IF k = zone.zone_id THEN zone ELSE zs[k]]

DrawZoneEvent(zone) ==
    Event(MonitorSourceName, ORBIT_DRAWER_QUEUE_NAME, "draw_restricted_zone",
          PZone(zone), XNone, NoSig)

\* hashing the key of `zone_id in self._restricted_zones` raises TypeError for a
\* list and for a RestrictedZone (a dataclass with eq and without frozen)
Unhashable(p) == p.kind \in {"list", "zone"}

\* zone_id in self._restricted_zones, for a hashable zone_id
HasZoneAlways(zs, p) == TRUE

HasZone(zs, p) == p.kind = "int" /\ p.id \in DOMAIN zs

\* del self._restricted_zones[zone_id]
RemoveZoneKeep(zs, p) == zs

RemoveZone(zs, p) == [k \in DOMAIN zs \ {p.id} |-> zs[k]]

ClearZoneEvent(p) ==
    Event(MonitorSourceName, ORBIT_DRAWER_QUEUE_NAME, "clear_restricted_zone",
          p, XNone, NoSig)

\* what one call of _proceed does: the registry and ledger it leaves, the puts it
\* makes in order, whether it raises, and how many log lines it writes
Outcome(zs, viol, puts, exc, logs) ==
    [zones |-> zs, violations |-> viol, puts |-> puts, raised |-> exc, logs |-> logs]

ProceedPhoto(e, zs, viol, reg) ==
    IF WellFormedPoint(e.parameters)
    THEN LET lat == e.parameters.items[1]
             lon == e.parameters.items[2]
         IN  IF zs # EmptyDict /\ ContainsRaises(lat, lon)
             THEN Outcome(zs, viol, <<>>, TRUE, 0)
             ELSE IF InRestrictedZone(zs, lat.v, lon.v)
             THEN IF UserLookupRaises(e.extra_parameters)
                  THEN Outcome(zs, viol, <<>>, TRUE, 0)
                  ELSE Outcome(zs, CountViolation(viol, UserOf(e.extra_parameters)),
                               <<>>, FALSE, 1)
             ELSE Outcome(zs, viol, PutToDrawer(reg, PhotoMapEvent(e, lat, lon)), FALSE, 0)
    ELSE Outcome(zs, viol, <<>>, FALSE, 0)

ProceedAdd(e, zs, viol, reg) ==
    IF IsZoneInstance(e.parameters)
    THEN LET zone == e.parameters.zone
         IN  Outcome(AddZone(zs, zone), viol, PutToDrawer(reg, DrawZoneEvent(zone)), FALSE, 1)
    ELSE Outcome(zs, viol, <<>>, FALSE, 0)

ProceedRemove(e, zs, viol, reg) ==
    IF Unhashable(e.parameters)
    THEN Outcome(zs, viol, <<>>, TRUE, 0)
    ELSE IF HasZone(zs, e.parameters)
    THEN Outcome(RemoveZone(zs, e.parameters), viol,
                 PutToDrawer(reg, ClearZoneEvent(e.parameters)), FALSE, 1)
    ELSE Outcome(zs, viol, <<>>, FALSE, 0)

Proceed(e, zs, viol, reg) ==
    CASE Branch(e.operation) = "photo" -> ProceedPhoto(e, zs, viol, reg)
      [] Branch(e.operation) = "add" -> ProceedAdd(e, zs, viol, reg)
      [] Branch(e.operation) = "remove" -> ProceedRemove(e, zs, viol, reg)
      [] Branch(e.operation) = "default" -> Outcome(zs, viol, BaseProceed(e, reg), FALSE, 0)
      [] OTHER -> Outcome(zs, viol, <<>>, FALSE, 0)

\* SecurityMonitorImpl.get_restricted_zones_count
get_restricted_zones_count == Cardinality(DOMAIN restricted_zones)

\* the puts of one handling applied to the channels, in order
RECURSIVE ApplyPuts(_, _)
ApplyPuts(qs, puts) ==
    IF puts = <<>> THEN qs
    ELSE ApplyPuts([qs EXCEPT ![Head(puts).q] = Append(@, Head(puts).ev)], Tail(puts))

-----------------------------------------------------------------------------
(* The inbound events of the model *)

Z1 == RestrictedZone(7, 0, 10, 10, 30, "first", 3)
Z1b == RestrictedZone(7, 20, 10, 30, 30, "moved", 1)
Z2 == RestrictedZone(8, 0, 20, 10, 40, "second", 2)

\* zones reach an event only through the constructor
ZonePool == {z \in {Z1, Z1b, Z2} : Constructible(z)}

PointIn == <<Num(5), Num(25)>>     \* inside Z1 and inside Z2
PointOut == <<Num(50), Num(50)>>   \* outside every zone of the pool

XAlice == XDict(("user" :> "alice") @@ ("role" :> "1"))
XBob == XDict(("user" :> "bob"))
XRole == XDict(("role" :> "2"))
XAdmin == XDict(("user" :> "root") @@ ("role" :> "3"))

PhotoEvents ==
    {Event(OPTICS_CONTROL_QUEUE_NAME, ORBIT_CONTROL_QUEUE_NAME, "post_photo_check",
           PTuple(pt), x, Sig("photo", "cam", 1)) :
        pt \in {PointIn, PointOut}, x \in {XNone, XAlice, XRole, XInt}}
    \cup
    {Event(OPTICS_CONTROL_QUEUE_NAME, ORBIT_CONTROL_QUEUE_NAME, "post_photo_check",
           p, XAlice, Sig("photo", "cam", 1)) :
        p \in {PNone, PTuple(<<Num(5)>>), PTuple(<<Str(1), Str(2)>>)}}
    \cup
    {Event(OPTICS_CONTROL_QUEUE_NAME, ORBIT_CONTROL_QUEUE_NAME, "update_photo_map",
           p, XBob, Sig("map", "cam", 2)) :
        p \in {PList(PointIn), PTuple(PointOut \o <<Num(0)>>), PList(<<Num(5)>>)}}

AddEvents ==
    {Event("client_root", SECURITY_MONITOR_QUEUE_NAME, "add_restricted_zone",
           p, XAdmin, Sig("addzone_cmd", "root", 0)) :
        p \in {PZone(z) : z \in ZonePool} \cup {PInt(7), PNone}}

RemoveEvents ==
    {Event("client_root", ORBIT_CONTROL_QUEUE_NAME, "remove_restricted_zone",
           p, XAdmin, Sig("removezone_cmd", "root", 1)) :
        p \in {PInt(7), PInt(8), PList(<<Num(7)>>)}}

OtherEvents ==
    {Event("client_root", ORBIT_CONTROL_QUEUE_NAME, "change_orbit",
           PTuple(<<Num(200000), Num(1), Num(1)>>), XNone, Sig("orbit_cmd", "root", 2)),
     Event("client_root", OPTICS_CONTROL_QUEUE_NAME, "request_photo",
           PNone, XAlice, Sig("photo_cmd", "alice", 3))}

Events == PhotoEvents \cup AddEvents \cup RemoveEvents \cup OtherEvents

\* the directories the monitor may be started with
Directories == SUBSET {ORBIT_DRAWER_QUEUE_NAME, ORBIT_CONTROL_QUEUE_NAME}

-----------------------------------------------------------------------------
(* The monitor *)

\* SecurityMonitorImpl.__init__: empty registry, empty ledger
Init ==
    /\ restricted_zones = EmptyDict
    /\ violations = EmptyDict
    /\ queues = [c \in ChannelNames |-> <<>>]
    /\ registered \in Directories
    /\ handled = <<>>
    /\ raised = FALSE
    /\ nlogs = 0
    /\ command_counter = 0
    /\ role = 0
    /\ processed = <<>>
    /\ issued = 0
    /\ AuxIdle

\* the run loop dequeues e from the inbound channel, _check_event lets it pass,
\* and _proceed(e) runs to its end or to an exception
MonitorHandle(e, qs) ==
    /\ Len(handled) < MaxEvents
    /\ LET o == Proceed(e, restricted_zones, violations, registered)
       IN  /\ restricted_zones' = o.zones
           /\ violations' = o.violations
           /\ queues' = ApplyPuts(qs, o.puts)
           /\ raised' = o.raised
           /\ nlogs' = nlogs + o.logs
    /\ handled' = Append(handled, e)

HandleEvent(e) ==
    /\ MonitorHandle(e, queues)
    /\ UNCHANGED <<registered, clientVars, auxVars>>

Next == \E e \in Events : HandleEvent(e)

Spec == Init /\ [][Next]_vars

-----------------------------------------------------------------------------
(* The violation ledger's accessor and its caller *)

\* SecurityMonitorImpl.get_violation_stats: `return self._violations.copy()`.
\* live says whether the mapping handed out is the monitor's own dict object
get_violation_stats_live(viol, snap) ==
    [calls |-> snap.calls + 1, writes |-> snap.writes, live |-> TRUE, d |-> viol]

get_violation_stats(viol, snap) ==
    [calls |-> snap.calls + 1, writes |-> snap.writes, live |-> FALSE, d |-> viol]

\* Python object identity: a write through one name of a dict shows under
\* every other name of the same object, and under no name of a copy
SeenThrough(snap, viol) == IF snap.live THEN viol ELSE snap.d
LedgerAfterWrite(snap, viol, d) == IF snap.live THEN d ELSE viol

StatsEvents ==
    {Event("client_root", SECURITY_MONITOR_QUEUE_NAME, "add_restricted_zone",
           PZone(Z1), XAdmin, Sig("addzone_cmd", "root", 0)),
     Event(OPTICS_CONTROL_QUEUE_NAME, ORBIT_CONTROL_QUEUE_NAME, "post_photo_check",
           PTuple(PointIn), XAlice, Sig("photo", "cam", 1)),
     Event(OPTICS_CONTROL_QUEUE_NAME, ORBIT_CONTROL_QUEUE_NAME, "post_photo_check",
           PTuple(PointIn), XNone, Sig("photo", "cam", 1)),
     Event(OPTICS_CONTROL_QUEUE_NAME, ORBIT_CONTROL_QUEUE_NAME, "post_photo_check",
           PTuple(PointOut), XAlice, Sig("photo", "cam", 1))}

CallerKeys == {"alice", "mallory"}
CallerValues == {0, 7}

\* the monitor handles an event while a caller may hold a mapping
HandleEventStats(e) ==
    /\ MonitorHandle(e, queues)
    /\ snapshot' = [snapshot EXCEPT !.d = SeenThrough(snapshot, violations')]
    /\ UNCHANGED <<registered, clientVars, procVars, pending, zoneVars>>

\* a caller calls monitor.get_violation_stats()
CallGetViolationStats ==
    /\ snapshot.calls + snapshot.writes < MaxCommands
    /\ snapshot' = get_violation_stats(violations, snapshot)
    /\ UNCHANGED <<restricted_zones, violations, queues, registered, handled, raised,
                   nlogs, clientVars, procVars, pending, zoneVars>>

CallerWrites(d) ==
    /\ snapshot.calls > 0
    /\ snapshot.calls + snapshot.writes < MaxCommands
    /\ snapshot' = [snapshot EXCEPT !.d = d, !.writes = @ + 1]
    /\ violations' = LedgerAfterWrite(snapshot, violations, d)
    /\ UNCHANGED <<restricted_zones, queues, registered, handled, raised,
                   nlogs, clientVars, procVars, pending, zoneVars>>

\* the caller does stats[k] = v: adds or changes an entry of what it was given
CallerSetsEntry ==
    \E k \in CallerKeys, v \in CallerValues :
        CallerWrites([u \in DOMAIN snapshot.d \cup {k} |-> IF u = k THEN v ELSE snapshot.d[u]])

\* the caller does del stats[k]
CallerDeletesEntry ==
    \E k \in DOMAIN snapshot.d :
        CallerWrites([u \in DOMAIN snapshot.d \ {k} |-> snapshot.d[u]])

NextStats ==
    \/ \E e \in StatsEvents : HandleEventStats(e)
    \/ CallGetViolationStats
    \/ CallerSetsEntry
    \/ CallerDeletesEntry

SpecStats == Init /\ [][NextStats]_vars

-----------------------------------------------------------------------------
(* One RestrictedZone: construction, queries, serialisation, registration *)

LatPool == {-91, -90, 5, 10, 90, 91}
LonPool == {-181, -180, -170, -10, 10, 170, 180, 181}
SeverityPool == {0, 1, 3, 4}

ArgsPool ==
    {RestrictedZone(7, la1, lo1, la2, lo2, "no-fly", sv) :
        la1 \in LatPool, lo1 \in LonPool, la2 \in LatPool, lo2 \in LonPool,
        sv \in SeverityPool}

QueryLats == {5, 50}
QueryLons == {-175, 5, 15, 180}

\* what a holder of the dictionary may write over its derived entries
Tampers ==
    {[center |-> <<0, 0>>, area |-> -1, severity_description |-> "tampered"],
     [center |-> <<360, 720>>, area |-> 0, severity_description |-> ""]}

FullDirectory == {ORBIT_DRAWER_QUEUE_NAME, ORBIT_CONTROL_QUEUE_NAME}

InitZone ==
    /\ restricted_zones = EmptyDict
    /\ violations = EmptyDict
    /\ queues = [c \in ChannelNames |-> <<>>]
    /\ registered = FullDirectory
    /\ handled = <<>>
    /\ raised = FALSE
    /\ nlogs = 0
    /\ command_counter = 0
    /\ role = 0
    /\ processed = <<>>
    /\ issued = 0
    /\ snapshot = NoSnapshot
    /\ pending = <<>>
    /\ ctor_args \in ArgsPool
    /\ the_zone = NoZone
    /\ ctor_error = "not called"
    /\ data = NoData
    /\ restored = NoZone
    /\ restored_error = "not called"
    /\ query = NoQuery
    /\ other = NoOther
    /\ ProcIdle

\* RestrictedZone(zone_id, lat_bot_left, ..., severity_level) is called once
Construct ==
    /\ ctor_error = "not called"
    /\ ctor_error' = InitError(ctor_args.lat_bot_left, ctor_args.lon_bot_left,
                               ctor_args.lat_top_right, ctor_args.lon_top_right,
                               ctor_args.severity_level)
    /\ the_zone' = IF ctor_error' = "ok"
                   THEN RestrictedZone(ctor_args.zone_id, ctor_args.lat_bot_left,
                                       ctor_args.lon_bot_left, ctor_args.lat_top_right,
                                       ctor_args.lon_top_right, ctor_args.description,
                                       ctor_args.severity_level)
                   ELSE NoZone
    /\ UNCHANGED <<restricted_zones, violations, queues, registered, handled, raised, nlogs,
                   clientVars, procVars, snapshot, pending, ctor_args, data, restored, restored_error,
                   query, other>>

\* zone.contains(lat, lon) on the zone the constructor returned
CallContains(lat, lon) ==
    /\ ctor_error = "ok"
    /\ query' = [op |-> "contains", lat |-> lat, lon |-> lon,
                 holds |-> Contains(the_zone, lat, lon), area |-> 0,
                 wrap |-> WrapBranch(the_zone)]
    /\ UNCHANGED <<restricted_zones, violations, queues, registered, handled, raised, nlogs,
                   clientVars, procVars, snapshot, pending, ctor_args, the_zone, ctor_error, data,
                   restored, restored_error, other>>

\* zone.get_area()
CallGetArea ==
    /\ ctor_error = "ok"
    /\ query' = [op |-> "get_area", lat |-> 0, lon |-> 0, holds |-> FALSE,
                 area |-> GetArea(the_zone), wrap |-> WrapBranch(the_zone)]
    /\ UNCHANGED <<restricted_zones, violations, queues, registered, handled, raised, nlogs,
                   clientVars, procVars, snapshot, pending, ctor_args, the_zone, ctor_error, data,
                   restored, restored_error, other>>

\* zone.contains(*zone.get_center()); lat and lon are kept in half degrees
CallContainsCenter ==
    /\ ctor_error = "ok"
    /\ query' = [op |-> "contains_center", lat |-> GetCenter(the_zone)[1],
                 lon |-> GetCenter(the_zone)[2],
                 holds |-> ContainsHalfDegrees(the_zone, GetCenter(the_zone)[1],
                                               GetCenter(the_zone)[2]),
                 area |-> 0, wrap |-> WrapBranch(the_zone)]
    /\ UNCHANGED <<restricted_zones, violations, queues, registered, handled, raised, nlogs,
                   clientVars, procVars, snapshot, pending, ctor_args, the_zone, ctor_error,
                   data, restored, restored_error, other>>

\* data = zone.to_dict()
CallToDict ==
    /\ ctor_error = "ok"
    /\ data = NoData
    /\ data' = ToDict(the_zone)
    /\ UNCHANGED <<restricted_zones, violations, queues, registered, handled, raised, nlogs,
                   clientVars, procVars, snapshot, pending, ctor_args, the_zone, ctor_error,
                   restored, restored_error, query, other>>

\* the holder overwrites data['center'], data['area'], data['severity_description']
TamperDict ==
    /\ data # NoData
    /\ restored_error = "not called"
    /\ \E t \in Tampers :
          data' = [data EXCEPT !.center = t.center, !.area = t.area,
                               !.severity_description = t.severity_description]
    /\ UNCHANGED <<restricted_zones, violations, queues, registered, handled, raised, nlogs,
                   clientVars, procVars, snapshot, pending, ctor_args, the_zone, ctor_error,
                   restored, restored_error, query, other>>

\* restored = RestrictedZone.from_dict(data)
CallFromDict ==
    /\ data # NoData
    /\ restored_error = "not called"
    /\ LET a == FromDictArgs(data)
       IN  /\ restored_error' = InitError(a.lat_bot_left, a.lon_bot_left, a.lat_top_right,
                                          a.lon_top_right, a.severity_level)
           /\ restored' = IF restored_error' = "ok"
                          THEN RestrictedZone(a.zone_id, a.lat_bot_left, a.lon_bot_left,
                                              a.lat_top_right, a.lon_top_right,
                                              a.description, a.severity_level)
                          ELSE NoZone
    /\ UNCHANGED <<restricted_zones, violations, queues, registered, handled, raised, nlogs,
                   clientVars, procVars, snapshot, pending, ctor_args, the_zone, ctor_error, data,
                   query, other>>

\* the ADD ZONE path: the zone the constructor returned travels to the monitor
\* in an add_restricted_zone event, which the monitor handles
RegisterZone ==
    /\ ctor_error = "ok"
    /\ MonitorHandle(Event("client_root", SECURITY_MONITOR_QUEUE_NAME,
                           "add_restricted_zone", PZone(the_zone), XAdmin,
                           Sig("addzone_cmd", "root", 0)), queues)
    /\ UNCHANGED <<registered, clientVars, auxVars>>

NextZone ==
    \/ Construct
    \/ \E lat \in QueryLats, lon \in QueryLons : CallContains(lat, lon)
    \/ CallGetArea
    \/ CallContainsCenter
    \/ CallToDict
    \/ TamperDict
    \/ CallFromDict
    \/ RegisterZone

SpecZone == InitZone /\ [][NextZone]_vars

\* the zones the other side of intersects is drawn from
OtherZones ==
    {z \in {RestrictedZone(8, la1, lo1, la2, lo2, "other", 1) :
                la1 \in {5, 20}, lo1 \in {-170, 10, 30}, la2 \in {10, 30}, lo2 \in {20, 40, 170}} :
        Constructible(z)}

\* a.intersects(b) and b.intersects(a) for two zones the constructor returned
CallIntersects(b) ==
    /\ ctor_error = "ok"
    /\ other' = [zone |-> b, called |-> TRUE, result |-> Intersects(the_zone, b),
                 reverse |-> Intersects(b, the_zone)]
    /\ UNCHANGED <<restricted_zones, violations, queues, registered, handled, raised, nlogs,
                   clientVars, procVars, snapshot, pending, ctor_args, the_zone, ctor_error, data,
                   restored, restored_error, query>>

NextPair ==
    \/ Construct
    \/ \E b \in OtherZones : CallIntersects(b)

SpecPair == InitZone /\ [][NextPair]_vars

-----------------------------------------------------------------------------
(* Several producers and the monitor's inbound channel *)

\* what each producer puts on the monitor's channel, in its own order
ProgramRoot ==
    <<Event("client_root", SECURITY_MONITOR_QUEUE_NAME, "add_restricted_zone",
            PZone(Z1), XAdmin, Sig("addzone_cmd", "root", 0)),
      Event("client_root", ORBIT_CONTROL_QUEUE_NAME, "remove_restricted_zone",
            PInt(7), XAdmin, Sig("removezone_cmd", "root", 1)),
      Event("client_root", SECURITY_MONITOR_QUEUE_NAME, "add_restricted_zone",
            PZone(Z2), XAdmin, Sig("addzone_cmd", "root", 2))>>

ProgramOptics ==
    <<Event(OPTICS_CONTROL_QUEUE_NAME, ORBIT_CONTROL_QUEUE_NAME, "post_photo_check",
            PTuple(PointIn), XAlice, Sig("photo", "cam", 1)),
      Event(OPTICS_CONTROL_QUEUE_NAME, ORBIT_CONTROL_QUEUE_NAME, "post_photo_check",
            PTuple(PointOut), XAlice, Sig("photo", "cam", 2)),
      Event(OPTICS_CONTROL_QUEUE_NAME, ORBIT_CONTROL_QUEUE_NAME, "post_photo_check",
            PTuple(PointIn), XAlice, Sig("photo", "cam", 3))>>

ProgramClient ==
    <<Event("client_alice", OPTICS_CONTROL_QUEUE_NAME, "update_photo_map",
            PList(PointIn), XBob, Sig("photo_cmd", "alice", 0)),
      Event("client_alice", ORBIT_CONTROL_QUEUE_NAME, "change_orbit",
            PList(<<Num(200000), Num(100), Num(50)>>), XAlice, Sig("orbit_cmd", "alice", 1))>>

Programs == <<ProgramRoot, ProgramOptics, ProgramClient>>
Producers == 1..Len(Programs)

Inbox == queues[SECURITY_MONITOR_QUEUE_NAME]

InitSys ==
    /\ restricted_zones = EmptyDict
    /\ violations = EmptyDict
    /\ queues = [c \in ChannelNames |-> <<>>]
    /\ registered \in Directories
    /\ handled = <<>>
    /\ raised = FALSE
    /\ nlogs = 0
    /\ command_counter = 0
    /\ role = 0
    /\ processed = <<>>
    /\ issued = 0
    /\ snapshot = NoSnapshot
    /\ pending = Programs
    /\ ZoneIdle
    /\ ProcIdle

\* producer p does q.put(event) on the monitor's channel
ProducerPut(p) ==
    /\ pending[p] # <<>>
    /\ Len(handled) + Len(Inbox) < MaxEvents
    /\ queues' = [queues EXCEPT ![SECURITY_MONITOR_QUEUE_NAME] = Append(@, Head(pending[p]))]
    /\ pending' = [pending EXCEPT ![p] = Tail(@)]
    /\ UNCHANGED <<restricted_zones, violations, registered, handled, raised, nlogs,
                   clientVars, procVars, snapshot, zoneVars>>

\* the monitor's loop takes the event at the head of its channel and handles it
\* to the end before it takes the next
MonitorRun ==
    /\ Inbox # <<>>
    /\ MonitorHandle(Head(Inbox), [queues EXCEPT ![SECURITY_MONITOR_QUEUE_NAME] = Tail(@)])
    /\ UNCHANGED <<registered, clientVars, auxVars>>

NextSys ==
    \/ \E p \in Producers : ProducerPut(p)
    \/ MonitorRun

SpecSys == InitSys /\ [][NextSys]_vars

-----------------------------------------------------------------------------
(* OrbitControl: its run loop, the control channel, the relay of change_orbit *)

\* src.system.event_types.ControlEvent, and an object of another class
ControlEvent(operation) == [cls |-> "ControlEvent", operation |-> operation]
NotAControlEvent == [cls |-> "object", operation |-> ""]

\* an object on the events queue that is not an Event, in the shape of one so
\* that it can stand in the same sequence
NotAnEvent ==
    [source |-> "", destination |-> "", operation |-> "", parameters |-> PNone,
     extra_parameters |-> XNone, signature |-> [kind |-> "object", user |-> "", n |-> 0]]

IsInstanceEvent(x) == x # NotAnEvent
IsInstanceControlEvent(x) == x.cls = "ControlEvent"

\* the value of self._quit after _check_control_q took request: any
\* ControlEvent stops the loop
QuitAfterAnyControlEvent(quit, request) ==
    IF ~IsInstanceControlEvent(request) THEN quit ELSE TRUE

\* the value of self._quit after _check_control_q took request
QuitAfter(quit, request) ==
    IF ~IsInstanceControlEvent(request) THEN quit
    ELSE IF request.operation = "stop" THEN TRUE
    ELSE quit

\* `altitude, raan, inclination = event.parameters` raises unless the payload
\* is a sequence of exactly three items
UnpacksToThree(p) == p.kind \in {"tuple", "list"} /\ Len(p.items) = 3

\* f"orbit_signature_{altitude}_{raan}_{inclination}"
OrbitSignature(items) == [kind |-> "orbit_signature", user |-> "", n |-> 0, of |-> items]

\* a relay that keeps the request's source
ChangeOrbitEventKeepSource(e) ==
    [source |-> e.source, destination |-> SATELITE_QUEUE_NAME, operation |-> "change_orbit",
     parameters |-> PTuple(e.parameters.items), extra_parameters |-> XNone,
     signature |-> OrbitSignature(e.parameters.items)]

\* the Event built by OrbitControl._change_orbit from the three values unpacked
ChangeOrbitEvent(e) ==
    [source |-> ORBIT_CONTROL_QUEUE_NAME, destination |-> SATELITE_QUEUE_NAME,
     operation |-> "change_orbit", parameters |-> PTuple(e.parameters.items),
     extra_parameters |-> XNone, signature |-> OrbitSignature(e.parameters.items)]

\* the case analysis of _check_events_q on one Event, and _change_orbit:
\* what is put, and whether an exception leaves _check_events_q
OrbitOutcome(e, reg) ==
    IF e.operation = "change_orbit"
    THEN IF ~UnpacksToThree(e.parameters) THEN [puts |-> <<>>, raised |-> TRUE]
         ELSE IF ~GetQueue(reg, SECURITY_MONITOR_QUEUE_NAME)
         THEN [puts |-> <<>>, raised |-> TRUE]
         ELSE [puts |-> Put(SECURITY_MONITOR_QUEUE_NAME, ChangeOrbitEvent(e)), raised |-> FALSE]
    ELSE [puts |-> <<>>, raised |-> FALSE]

EventsQ == queues[ORBIT_CONTROL_QUEUE_NAME]

\* what is put on OrbitControl's two queues from outside
OrbitRequests ==
    {Event(SECURITY_MONITOR_QUEUE_NAME, ORBIT_CONTROL_QUEUE_NAME, "change_orbit",
           PTuple(<<Num(200000), Num(100), Num(50)>>), XNone, Sig("orbit_cmd", "alice", 0)),
     Event(SECURITY_MONITOR_QUEUE_NAME, ORBIT_CONTROL_QUEUE_NAME, "change_orbit",
           PList(<<Num(300000), Num(0), Num(0)>>), XNone, Sig("orbit_cmd", "alice", 1)),
     Event(SECURITY_MONITOR_QUEUE_NAME, ORBIT_CONTROL_QUEUE_NAME, "change_orbit",
           PTuple(<<Num(200000), Num(100)>>), XNone, Sig("orbit_cmd", "alice", 2)),
     Event(SECURITY_MONITOR_QUEUE_NAME, ORBIT_CONTROL_QUEUE_NAME, "request_photo",
           PNone, XNone, Sig("photo_cmd", "alice", 3)),
     NotAnEvent}

ControlRequests == {ControlEvent("stop"), ControlEvent("pause"), NotAControlEvent}

OrbitDirectories ==
    {{ORBIT_CONTROL_QUEUE_NAME}, {ORBIT_CONTROL_QUEUE_NAME, SECURITY_MONITOR_QUEUE_NAME}}

\* BaseCustomProcess.__init__: the process is created with an empty control
\* queue and _quit False
BaseCustomProcessInit ==
    [quit |-> FALSE, pc |-> "while", control_q |-> <<>>, inflight |-> <<>>,
     taken |-> <<>>, sent |-> 0]

InitOrbit ==
    /\ restricted_zones = EmptyDict
    /\ violations = EmptyDict
    /\ queues = [c \in ChannelNames |-> <<>>]
    /\ registered \in OrbitDirectories
    /\ handled = <<>>
    /\ raised = FALSE
    /\ nlogs = 0
    /\ command_counter = 0
    /\ role = 0
    /\ processed = <<>>
    /\ issued = 0
    /\ snapshot = NoSnapshot
    /\ pending = <<>>
    /\ ZoneIdle
    /\ orbit = BaseCustomProcessInit
    /\ sched = NoSched

OrbitUnchanged ==
    UNCHANGED <<restricted_zones, violations, registered, handled, raised, nlogs,
                clientVars, snapshot, pending, zoneVars, sched>>

\* another process puts a request on the control queue
PutControl(request) ==
    /\ orbit.pc # "not created"
    /\ orbit.sent < MaxCommands
    /\ orbit' = [orbit EXCEPT !.control_q = Append(@, request), !.sent = @ + 1]
    /\ UNCHANGED queues
    /\ OrbitUnchanged

\* the monitor (or anything else) puts an item on the events queue
PutOrbitEvent(x) ==
    /\ orbit.pc # "not created"
    /\ orbit.sent < MaxCommands
    /\ queues' = [queues EXCEPT ![ORBIT_CONTROL_QUEUE_NAME] = Append(@, x)]
    /\ orbit' = [orbit EXCEPT !.sent = @ + 1]
    /\ OrbitUnchanged

\* run: `while self._quit is False:`
OrbitWhile ==
    /\ orbit.pc = "while"
    /\ orbit' = [orbit EXCEPT !.pc = IF orbit.quit THEN "exited" ELSE "events"]
    /\ UNCHANGED queues
    /\ OrbitUnchanged

\* _check_events_q: `self._events_q.get_nowait()`; Empty breaks the inner
\* loop, an object that is not an Event returns from it, an Event is taken up
OrbitGet ==
    /\ orbit.pc = "events"
    /\ IF EventsQ = <<>>
       THEN /\ orbit' = [orbit EXCEPT !.pc = "control"]
            /\ UNCHANGED queues
       ELSE /\ queues' = [queues EXCEPT ![ORBIT_CONTROL_QUEUE_NAME] = Tail(@)]
            /\ IF IsInstanceEvent(Head(EventsQ))
               THEN orbit' = [orbit EXCEPT !.pc = "handle", !.inflight = <<Head(EventsQ)>>,
                                           !.taken = Append(@, Head(EventsQ))]
               ELSE orbit' = [orbit EXCEPT !.pc = "control"]
    /\ OrbitUnchanged

\* _check_events_q: the match on event.operation, with _change_orbit; an
\* exception is caught by run, which goes to the next iteration
OrbitHandle ==
    /\ orbit.pc = "handle"
    /\ LET o == OrbitOutcome(orbit.inflight[1], registered)
       IN  /\ queues' = ApplyPuts(queues, o.puts)
           /\ orbit' = [orbit EXCEPT !.inflight = <<>>,
                                     !.pc = IF o.raised THEN "while" ELSE "events"]
    /\ OrbitUnchanged

\* _check_control_q: one get_nowait() on the control queue
OrbitCheckControl ==
    /\ orbit.pc = "control"
    /\ IF orbit.control_q = <<>>
       THEN orbit' = [orbit EXCEPT !.pc = "while"]
       ELSE orbit' = [orbit EXCEPT !.pc = "while", !.control_q = Tail(@),
                                   !.quit = QuitAfter(orbit.quit, Head(orbit.control_q))]
    /\ UNCHANGED queues
    /\ OrbitUnchanged

OrbitStep == OrbitWhile \/ OrbitGet \/ OrbitHandle \/ OrbitCheckControl

NextOrbit ==
    \/ \E request \in ControlRequests : PutControl(request)
    \/ \E x \in OrbitRequests : PutOrbitEvent(x)
    \/ OrbitWhile
    \/ OrbitGet
    \/ OrbitHandle
    \/ OrbitCheckControl

SpecOrbit == InitOrbit /\ [][NextOrbit]_vars

\* the process is scheduled again and again until its loop ends
SpecOrbitFair == SpecOrbit /\ WF_vars(OrbitStep)

-----------------------------------------------------------------------------
(* CommandScheduler *)

\* ScheduledCommand(time_offset, command_func, args, kwargs); id tells the
\* objects apart, fails says whether the callable raises
ScheduledCommand(id, time_offset, fails) == [id |-> id, time_offset |-> time_offset, fails |-> fails]

\* hash(cmd): @dataclass with eq and without frozen sets __hash__ to None, so
\* `cmd not in executed_commands` raises TypeError for every ScheduledCommand
Hashable(cmd) == FALSE

\* list.sort(key=lambda x: x.time_offset) on one more element: stable
SortedInsert(sorted, cmd) ==
    SelectSeq(sorted, LAMBDA c : c.time_offset <= cmd.time_offset)
        \o <<cmd>> \o SelectSeq(sorted, LAMBDA c : c.time_offset > cmd.time_offset)

RECURSIVE SortByTimeOffset(_)
SortByTimeOffset(cmds) ==
    IF cmds = <<>> THEN <<>>
    ELSE SortedInsert(SortByTimeOffset(SubSeq(cmds, 1, Len(cmds) - 1)), cmds[Len(cmds)])

\* the for loop of _run_scheduler over the commands from index i on:
\* the set of executed commands, the calls made, and whether an exception
\* left the loop (the membership test stands outside the try)
RECURSIVE RunDue(_, _, _, _, _)
RunDue(cmds, i, elapsed, executed, ran) ==
    IF i > Len(cmds) THEN [executed |-> executed, ran |-> ran, crashed |-> FALSE]
    ELSE IF ~(elapsed >= cmds[i].time_offset) THEN RunDue(cmds, i + 1, elapsed, executed, ran)
    ELSE IF ~Hashable(cmds[i]) THEN [executed |-> executed, ran |-> ran, crashed |-> TRUE]
    ELSE IF cmds[i].id \in executed THEN RunDue(cmds, i + 1, elapsed, executed, ran)
    ELSE IF cmds[i].fails
    THEN RunDue(cmds, i + 1, elapsed, executed,
                Append(ran, [id |-> cmds[i].id, at |-> elapsed, ok |-> FALSE]))
    ELSE RunDue(cmds, i + 1, elapsed, executed \cup {cmds[i].id},
                Append(ran, [id |-> cmds[i].id, at |-> elapsed, ok |-> TRUE]))

TimeOffsets == 0..2
LastTime == CHOOSE t \in TimeOffsets : \A u \in TimeOffsets : u <= t

\* CommandScheduler.__init__
NewScheduler ==
    [scheduled_commands |-> <<>>, executed_commands |-> {}, ran |-> <<>>, elapsed |-> 0,
     running |-> FALSE, thread |-> "not started", added |-> 0]

InitSched ==
    /\ restricted_zones = EmptyDict
    /\ violations = EmptyDict
    /\ queues = [c \in ChannelNames |-> <<>>]
    /\ registered = {}
    /\ handled = <<>>
    /\ raised = FALSE
    /\ nlogs = 0
    /\ command_counter = 0
    /\ role = 0
    /\ processed = <<>>
    /\ issued = 0
    /\ snapshot = NoSnapshot
    /\ pending = <<>>
    /\ ZoneIdle
    /\ orbit = NoOrbit
    /\ sched = NewScheduler

SchedUnchanged ==
    UNCHANGED <<restricted_zones, violations, queues, registered, handled, raised, nlogs,
                clientVars, snapshot, pending, zoneVars, orbit>>

\* add_command(time_offset, command_func)
AddCommand(time_offset, fails) ==
    /\ sched.added < MaxCommands
    /\ sched' = [sched EXCEPT
                    !.added = @ + 1,
                    !.scheduled_commands =
                        SortByTimeOffset(Append(@, ScheduledCommand(sched.added + 1,
                                                                    time_offset, fails)))]
    /\ SchedUnchanged

\* start()
StartScheduler ==
    /\ sched.thread = "not started"
    /\ sched' = [sched EXCEPT !.running = TRUE, !.thread = "running", !.elapsed = 0]
    /\ SchedUnchanged

\* stop()
StopScheduler ==
    /\ sched.running
    /\ sched' = [sched EXCEPT !.running = FALSE]
    /\ SchedUnchanged

\* time passes
Tick ==
    /\ sched.thread # "not started"
    /\ sched.elapsed < LastTime
    /\ sched' = [sched EXCEPT !.elapsed = @ + 1]
    /\ SchedUnchanged

\* one iteration of the while loop of _run_scheduler
SchedulerPass ==
    /\ sched.thread = "running"
    /\ IF ~sched.running
       THEN sched' = [sched EXCEPT !.thread = "stopped"]
       ELSE LET o == RunDue(sched.scheduled_commands, 1, sched.elapsed,
                            sched.executed_commands, sched.ran)
            IN  sched' = [sched EXCEPT
                            !.executed_commands = o.executed,
                            !.ran = o.ran,
                            !.thread =
                                IF o.crashed THEN "crashed"
                                ELSE IF Cardinality(o.executed) = Len(sched.scheduled_commands)
                                THEN "finished"
                                ELSE "running"]
    /\ SchedUnchanged

NextSched ==
    \/ \E t \in TimeOffsets, fails \in BOOLEAN : AddCommand(t, fails)
    \/ StartScheduler
    \/ StopScheduler
    \/ Tick
    \/ SchedulerPass

SpecSched == InitSched /\ [][NextSched]_vars

\* the clock runs and the scheduler's thread gets its turns
SpecSchedFair == SpecSched /\ WF_vars(Tick) /\ WF_vars(SchedulerPass)

-----------------------------------------------------------------------------
(* The command producers: InterpreterImpl and CommandFactory *)

User == "alice"
ClientSource == "client_alice"      \* f"client_{self.user}"
SchedulerSource == "scheduler"

\* program_parser.Command; numbers are whole, raan and inclination in hundredths
Command(name, args) == [name |-> name, args |-> args]

\* permissions.PERMISSIONS and permissions.allowed
PERMISSIONS ==
    ("MAKE PHOTO" :> {1, 2, 3}) @@ ("ORBIT" :> {2, 3}) @@ ("ADD ZONE" :> {3})
        @@ ("REMOVE ZONE" :> {3})

allowed(r, command) ==
    r \in (IF command \in DOMAIN PERMISSIONS THEN PERMISSIONS[command] ELSE {})

\* an _is_allowed whose table lets the VIP role manage zones
IsAllowedVipZones(r, command_name) ==
    CASE command_name = "MAKE PHOTO" -> r \in {1, 2, 3}
      [] command_name = "ORBIT" -> r \in {2, 3}
      [] command_name = "ADD ZONE" -> r \in {2, 3}
      [] command_name = "REMOVE ZONE" -> r \in {2, 3}
      [] OTHER -> FALSE

\* InterpreterImpl._is_allowed
IsAllowed(r, command_name) ==
    CASE command_name = "MAKE PHOTO" -> r \in {1, 2, 3}
      [] command_name = "ORBIT" -> r \in {2, 3}
      [] command_name = "ADD ZONE" -> r \in {3}
      [] command_name = "REMOVE ZONE" -> r \in {3}
      [] OTHER -> FALSE

Min(a, b) == IF a <= b THEN a ELSE b
Max(a, b) == IF a >= b THEN a ELSE b

\* `q = self.queues_dir.get_queue(SECURITY_MONITOR_QUEUE_NAME); if q: q.put(event);
\* self.command_counter += 1`: the puts, the counter, no exception
SendViaMonitor(reg, ev, counter) ==
    IF GetQueue(reg, SECURITY_MONITOR_QUEUE_NAME)
    THEN [puts |-> Put(SECURITY_MONITOR_QUEUE_NAME, ev), counter |-> counter + 1, raised |-> FALSE]
    ELSE [puts |-> <<>>, counter |-> counter, raised |-> FALSE]

\* a failure that still counts the command
FailedButCounted(counter) == [puts |-> <<>>, counter |-> counter + 1, raised |-> TRUE]

\* an exception leaves _execute_command: nothing put, the counter as it was
Failed(counter) == [puts |-> <<>>, counter |-> counter, raised |-> TRUE]

ClientExtra(r) == XDict(("user" :> User) @@ ("role" :> ToString(r)))

\* InterpreterImpl._execute_command
ExecuteCommand(cmd, r, counter, reg) ==
    CASE cmd.name = "ORBIT" ->
            IF Len(cmd.args) # 3 THEN Failed(counter)
            ELSE LET altitude == cmd.args[1]
                     raan == cmd.args[2]
                     inclination == cmd.args[3]
                 IN  IF ~(160000 <= altitude /\ altitude <= 2000000) THEN Failed(counter)
                     ELSE IF ~(-314 <= raan /\ raan <= 314) THEN Failed(counter)
                     ELSE IF ~(-157 <= inclination /\ inclination <= 157) THEN Failed(counter)
                     ELSE SendViaMonitor(reg,
                            Event(ClientSource, ORBIT_CONTROL_QUEUE_NAME, "change_orbit",
                                  PTuple(<<Num(altitude), Num(raan), Num(inclination)>>),
                                  XNone, Sig("orbit_cmd", User, counter)),
                            counter)
      [] cmd.name = "MAKE PHOTO" ->
            SendViaMonitor(reg,
                Event(ClientSource, OPTICS_CONTROL_QUEUE_NAME, "request_photo", PNone,
                      XDict(("priority" :> "1") @@ ("user" :> User) @@ ("role" :> ToString(r))),
                      Sig("photo_cmd", User, counter)),
                counter)
      [] cmd.name = "ADD ZONE" ->
            IF Len(cmd.args) # 5 THEN Failed(counter)
            ELSE LET zone_id == cmd.args[1]
                     lat1 == cmd.args[2]
                     lon1 == cmd.args[3]
                     lat2 == cmd.args[4]
                     lon2 == cmd.args[5]
                 IN  IF InitError(Min(lat1, lat2), Min(lon1, lon2), Max(lat1, lat2),
                                  Max(lon1, lon2), 3) # "ok"
                     THEN Failed(counter)
                     ELSE SendViaMonitor(reg,
                            Event(ClientSource, SECURITY_MONITOR_QUEUE_NAME,
                                  "add_restricted_zone",
                                  PZone(RestrictedZone(zone_id, Min(lat1, lat2), Min(lon1, lon2),
                                                       Max(lat1, lat2), Max(lon1, lon2),
                                                       "added by alice", 3)),
                                  ClientExtra(r), Sig("addzone_cmd", User, counter)),
                            counter)
      [] cmd.name = "REMOVE ZONE" ->
            IF Len(cmd.args) < 1 THEN Failed(counter)
            ELSE SendViaMonitor(reg,
                    Event(ClientSource, SECURITY_MONITOR_QUEUE_NAME, "remove_restricted_zone",
                          PInt(cmd.args[1]), ClientExtra(r),
                          Sig("removezone_cmd", User, counter)),
                    counter)
      [] OTHER -> Failed(counter)

\* the programs' commands
Commands ==
    {Command("ORBIT", <<200000, 100, 50>>),
     Command("ORBIT", <<100, 0, 0>>),
     Command("MAKE PHOTO", <<>>),
     Command("ADD ZONE", <<7, 0, 10, 10, 30>>),
     Command("ADD ZONE", <<8, 10, 40, 0, 20>>),
     Command("ADD ZONE", <<9, 0, -10, 10, 10>>),
     Command("ADD ZONE", <<9, 5, 10, 5, 30>>),
     Command("ADD ZONE", <<9, 0, 10, 95, 30>>),
     Command("REMOVE ZONE", <<7>>),
     Command("SELF DESTRUCT", <<>>)}

Roles == 0..3

\* the directories the producers may run against
ClientDirectories ==
    {{},
     {SECURITY_MONITOR_QUEUE_NAME},
     {SATELITE_QUEUE_NAME, CAMERA_QUEUE_NAME, ORBIT_DRAWER_QUEUE_NAME},
     {SECURITY_MONITOR_QUEUE_NAME, SATELITE_QUEUE_NAME, CAMERA_QUEUE_NAME,
      ORBIT_DRAWER_QUEUE_NAME}}

\* InterpreterImpl.__init__, before any command ran
InitCmd ==
    /\ restricted_zones = EmptyDict
    /\ violations = EmptyDict
    /\ queues = [c \in ChannelNames |-> <<>>]
    /\ registered \in ClientDirectories
    /\ handled = <<>>
    /\ raised = FALSE
    /\ nlogs = 0
    /\ command_counter = 0
    /\ role \in Roles
    /\ processed = <<>>
    /\ issued = 0
    /\ AuxIdle

\* one iteration of the loop of InterpreterImpl.run over cmd: the permission
\* check, then _execute_command inside try / except
InterpreterStep(cmd) ==
    /\ issued < MaxCommands
    /\ issued' = issued + 1
    /\ IF ~IsAllowed(role, cmd.name)
       THEN /\ processed' = Append(processed, [cmd |-> cmd, result |-> "denied"])
            /\ UNCHANGED <<queues, command_counter, raised>>
       ELSE LET o == ExecuteCommand(cmd, role, command_counter, registered)
            IN  /\ queues' = ApplyPuts(queues, o.puts)
                /\ command_counter' = o.counter
                /\ raised' = o.raised
                /\ processed' = Append(processed,
                       [cmd |-> cmd, result |-> IF o.raised THEN "error" ELSE "executed"])
    /\ UNCHANGED <<monitorVars, registered, role, auxVars>>

\* CommandFactory.create_orbit_change: the closure change_orbit
FactoryChangeOrbit(reg, altitude, raan, inclination) ==
    IF GetQueue(reg, SATELITE_QUEUE_NAME)
    THEN Put(SATELITE_QUEUE_NAME,
             Event(SchedulerSource, SATELITE_QUEUE_NAME, "change_orbit",
                   PTuple(<<Num(altitude), Num(raan), Num(inclination)>>), XNone, NoSig))
    ELSE <<>>

\* CommandFactory.create_photo_request: the closure request_photos
RECURSIVE FactoryRequestPhotos(_, _)
FactoryRequestPhotos(reg, count) ==
    IF ~GetQueue(reg, CAMERA_QUEUE_NAME) \/ count <= 0 THEN <<>>
    ELSE Put(CAMERA_QUEUE_NAME,
             Event(SchedulerSource, CAMERA_QUEUE_NAME, "request_photo", PNone, XNone, NoSig))
         \o FactoryRequestPhotos(reg, count - 1)

\* CommandFactory.create_zone_add: the closure add_zone; the constructor's
\* ValueError leaves the closure with nothing put
FactoryAddZone(reg, zone_id, lat1, lon1, lat2, lon2) ==
    IF GetQueue(reg, ORBIT_DRAWER_QUEUE_NAME)
       /\ InitError(Min(lat1, lat2), Min(lon1, lon2), Max(lat1, lat2), Max(lon1, lon2), 1) = "ok"
    THEN Put(ORBIT_DRAWER_QUEUE_NAME,
             Event(SchedulerSource, ORBIT_DRAWER_QUEUE_NAME, "draw_restricted_zone",
                   PZone(RestrictedZone(zone_id, Min(lat1, lat2), Min(lon1, lon2),
                                        Max(lat1, lat2), Max(lon1, lon2), "scheduled", 1)),
                   XNone, NoSig))
    ELSE <<>>

\* CommandFactory.create_zone_remove: the closure remove_zone
FactoryRemoveZone(reg, zone_id) ==
    IF GetQueue(reg, ORBIT_DRAWER_QUEUE_NAME)
    THEN Put(ORBIT_DRAWER_QUEUE_NAME,
             Event(SchedulerSource, ORBIT_DRAWER_QUEUE_NAME, "clear_restricted_zone",
                   PInt(zone_id), XNone, NoSig))
    ELSE <<>>

\* the scheduler calls one closure of the factory
RunFactory(puts) ==
    /\ issued < MaxCommands
    /\ issued' = issued + 1
    /\ queues' = ApplyPuts(queues, puts)
    /\ UNCHANGED <<monitorVars, registered, raised, command_counter, role, processed, auxVars>>

SchedulerChangeOrbit == RunFactory(FactoryChangeOrbit(registered, 200000, 100, 50))
SchedulerRequestPhotos == \E count \in 1..2 : RunFactory(FactoryRequestPhotos(registered, count))
SchedulerAddZone ==
    \E lon1 \in {-10, 10} : RunFactory(FactoryAddZone(registered, 7, 0, lon1, 10, 30))
SchedulerRemoveZone == RunFactory(FactoryRemoveZone(registered, 7))

NextCmd ==
    \/ \E cmd \in Commands : InterpreterStep(cmd)
    \/ SchedulerChangeOrbit
    \/ SchedulerRequestPhotos
    \/ SchedulerAddZone
    \/ SchedulerRemoveZone

SpecCmd == InitCmd /\ [][NextCmd]_vars

\* the sources of commands that originate outside the satellite
CommandSources == {ClientSource, SchedulerSource}

\* C3: every event a command-originating component (InterpreterImpl, the
\* CommandFactory commands) puts on a channel is put on the Security Monitor's
\* inbound channel; none is put directly on a target subsystem's channel.
C3_CommandsOnlyViaMonitor ==
    \A c \in ChannelNames \ {SECURITY_MONITOR_QUEUE_NAME} :
        \A i \in 1..Len(queues[c]) : queues[c][i].source \notin CommandSources

\* the part of C3 that InterpreterImpl alone keeps
C3_InterpreterOnlyViaMonitor ==
    \A c \in ChannelNames \ {SECURITY_MONITOR_QUEUE_NAME} :
        \A i \in 1..Len(queues[c]) : queues[c][i].source # ClientSource

-----------------------------------------------------------------------------
(* Vocabulary of the properties: what a step handled, stated on the events *)

\* a step of the monitor, and the event it handled
Stepped == handled' # handled
Ev == handled'[Len(handled')]
LastHandled == handled[Len(handled)]

PhotoOps == {"post_photo_check", "update_photo_map"}
ZoneOps == {"add_restricted_zone", "remove_restricted_zone"}

\* a (lat, lon) payload: a tuple or list of at least two items, the first two numbers
IsPair(p) == p.kind \in {"tuple", "list"} /\ Len(p.items) >= 2
IsPoint(p) == IsPair(p) /\ p.items[1].t = "num" /\ p.items[2].t = "num"
ZonesAround(zs, p) == {k \in DOMAIN zs : Contains(zs[k], p.items[1].v, p.items[2].v)}

\* the user a violation is booked on
ExpectedUser(x) == IF x.kind = "dict" /\ "user" \in DOMAIN x.d THEN x.d["user"] ELSE "unknown"
CountOf(viol, u) == IF u \in DOMAIN viol THEN viol[u] ELSE 0

\* a photo event for a point inside a zone of registry zs, its user readable
BlockedCase(e, zs) ==
    /\ e.operation \in PhotoOps
    /\ IsPoint(e.parameters)
    /\ ZonesAround(zs, e.parameters) # {}
    /\ e.extra_parameters.kind \in {"none", "dict"}

DrawerEvents(op) == {i \in 1..Len(queues[ORBIT_DRAWER_QUEUE_NAME]) :
                        queues[ORBIT_DRAWER_QUEUE_NAME][i].operation = op}

-----------------------------------------------------------------------------
(* C1 *)

C1_BlockStep ==
    (Stepped /\ BlockedCase(Ev, restricted_zones)) =>
        LET u == ExpectedUser(Ev.extra_parameters)
        IN  /\ DOMAIN violations' = DOMAIN violations \cup {u}
            /\ violations'[u] = CountOf(violations, u) + 1
            /\ \A w \in DOMAIN violations \ {u} : violations'[w] = violations[w]
            /\ queues' = queues
            /\ ~raised'

\* the same blocked event handled twice in a row, no photo event before them
C1_Twice ==
    \A i \in 1..(Len(handled) - 1) :
        (/\ handled[i] = handled[i + 1]
         /\ i + 1 = Len(handled)
         /\ BlockedCase(handled[i], restricted_zones)
         /\ \A j \in 1..(i - 1) : handled[j].operation \notin PhotoOps)
        => /\ violations[ExpectedUser(handled[i].extra_parameters)] = 2
           /\ DrawerEvents("update_photo_map") = {}

\* C1: handling a post_photo_check or update_photo_map event whose point lies
\* inside at least one registered zone raises violations[user] by exactly 1
\* (user from extra_parameters['user'], else "unknown"), however many zones
\* contain the point, and enqueues nothing on any channel; the same event
\* handled twice raises the count by 2 and sends nothing to the map sink.
C1_BlockedPhotoCountsOnce == [][C1_BlockStep]_vars /\ []C1_Twice

\* a blocked photo with two registered zones around its point
C1_Witness ==
    /\ Len(handled) = 3
    /\ BlockedCase(LastHandled, restricted_zones)
    /\ Cardinality(ZonesAround(restricted_zones, LastHandled.parameters)) = 2
    /\ violations = ("unknown" :> 1)
    /\ ~raised

-----------------------------------------------------------------------------
(* C2 *)

ExpectedPhotoMapEvent(e) ==
    [source |-> MonitorSourceName, destination |-> ORBIT_DRAWER_QUEUE_NAME,
     operation |-> "update_photo_map",
     parameters |-> PTuple(<<e.parameters.items[1], e.parameters.items[2]>>),
     extra_parameters |-> e.extra_parameters, signature |-> e.signature]

ForwardCase(e, zs) ==
    /\ e.operation \in PhotoOps
    /\ IsPoint(e.parameters)
    /\ ZonesAround(zs, e.parameters) = {}

C2_ForwardStep ==
    (Stepped /\ ForwardCase(Ev, restricted_zones)
             /\ ORBIT_DRAWER_QUEUE_NAME \in registered) =>
        /\ queues' = [queues EXCEPT ![ORBIT_DRAWER_QUEUE_NAME] =
                         Append(@, ExpectedPhotoMapEvent(Ev))]
        /\ violations' = violations
        /\ restricted_zones' = restricted_zones
        /\ ~raised'

\* C2: a photo event with a well-formed point outside every registered zone,
\* with the map sink registered, puts exactly one event on the map sink and
\* nothing elsewhere: operation update_photo_map, parameters (lat, lon), source
\* the monitor, destination the map sink, extra_parameters and signature those
\* of the inbound event; ledger and registry are unchanged.
C2_OutsidePhotoForwardedOnce == [][C2_ForwardStep]_vars

\* a forwarded photo while a zone is registered
C2_Witness ==
    /\ Len(handled) >= 2
    /\ restricted_zones # EmptyDict
    /\ ForwardCase(LastHandled, restricted_zones)
    /\ LastHandled.extra_parameters = XAlice
    /\ Len(queues[ORBIT_DRAWER_QUEUE_NAME]) >= 2
    /\ queues[ORBIT_DRAWER_QUEUE_NAME][Len(queues[ORBIT_DRAWER_QUEUE_NAME])]
           = ExpectedPhotoMapEvent(LastHandled)

-----------------------------------------------------------------------------
(* C4 *)

IsAdd(e) == e.operation = "add_restricted_zone" /\ e.parameters.kind = "zone"
IsRemoveOf(e, k) ==
    e.operation = "remove_restricted_zone" /\ e.parameters.kind = "int" /\ e.parameters.id = k

ExpectedDraw(z) ==
    [source |-> MonitorSourceName, destination |-> ORBIT_DRAWER_QUEUE_NAME,
     operation |-> "draw_restricted_zone", parameters |-> PZone(z),
     extra_parameters |-> XNone, signature |-> NoSig]

ExpectedClear(k) ==
    [source |-> MonitorSourceName, destination |-> ORBIT_DRAWER_QUEUE_NAME,
     operation |-> "clear_restricted_zone", parameters |-> PInt(k),
     extra_parameters |-> XNone, signature |-> NoSig]

AddThenRemove ==
    /\ Len(handled) = 2
    /\ IsAdd(handled[1])
    /\ IsRemoveOf(handled[2], handled[1].parameters.zone.zone_id)
    /\ ORBIT_DRAWER_QUEUE_NAME \in registered

\* C4: from the empty registry with the map sink registered, add_restricted_zone
\* for a zone with id k then remove_restricted_zone for k leaves the zone count 0
\* and exactly two events on the map sink: draw_restricted_zone with the zone,
\* then clear_restricted_zone with k.
C4_AddRemoveLifecycle ==
    AddThenRemove =>
        /\ get_restricted_zones_count = 0
        /\ queues[ORBIT_DRAWER_QUEUE_NAME] =
               <<ExpectedDraw(handled[1].parameters.zone),
                 ExpectedClear(handled[1].parameters.zone.zone_id)>>

C4_Witness == AddThenRemove /\ handled[1].parameters.zone.zone_id = 8

-----------------------------------------------------------------------------
(* C5 *)

PassthroughCase(e) == e.operation \notin PhotoOps \cup ZoneOps

C5_RelayStep ==
    (Stepped /\ PassthroughCase(Ev) /\ Ev.destination \in registered) =>
        /\ queues' = [queues EXCEPT ![Ev.destination] = Append(@, Ev)]
        /\ restricted_zones' = restricted_zones
        /\ violations' = violations

\* C5: an event whose operation is none of post_photo_check, update_photo_map,
\* add_restricted_zone, remove_restricted_zone and whose destination names a
\* registered channel is put on that channel unchanged, exactly once, and
\* neither the registry nor the ledger changes.
C5_UnknownOperationRelayed == [][C5_RelayStep]_vars

\* a relayed change_orbit while the registry and the ledger are not empty
C5_Witness ==
    /\ Len(handled) = 3
    /\ PassthroughCase(LastHandled)
    /\ LastHandled.destination \in registered
    /\ restricted_zones # EmptyDict
    /\ violations # EmptyDict
    /\ queues[LastHandled.destination] = <<LastHandled>>

-----------------------------------------------------------------------------
(* C6 *)

\* C6: whatever the shape or type of an inbound event's parameters and
\* extra_parameters, and in every registry state, the monitor's handling of the
\* event completes without raising an exception.
C6_HandlingNeverRaises == ~raised

-----------------------------------------------------------------------------
(* C7 *)

\* the handling would forward: a photo outside every zone, a zone added, a
\* registered zone removed (all to the map sink), or a passthrough
ForwardsTo(e, zs) ==
    IF e.operation \in PhotoOps
    THEN IF IsPoint(e.parameters) /\ ZonesAround(zs, e.parameters) = {}
         THEN {ORBIT_DRAWER_QUEUE_NAME} ELSE {}
    ELSE IF e.operation = "add_restricted_zone"
    THEN IF e.parameters.kind = "zone" THEN {ORBIT_DRAWER_QUEUE_NAME} ELSE {}
    ELSE IF e.operation = "remove_restricted_zone"
    THEN IF e.parameters.kind = "int" /\ e.parameters.id \in DOMAIN zs
         THEN {ORBIT_DRAWER_QUEUE_NAME} ELSE {}
    ELSE {e.destination}

C7_DropStep ==
    (Stepped /\ ForwardsTo(Ev, restricted_zones) # {}
             /\ ForwardsTo(Ev, restricted_zones) \cap registered = {}) =>
        /\ queues' = queues
        /\ ~raised'

\* C7: whenever the monitor would forward an event (update_photo_map,
\* draw_restricted_zone, clear_restricted_zone, or a passthrough) and the
\* destination channel is not registered, the handling completes without
\* raising and no event is put on any channel.
C7_UnregisteredForwardIsNoOp == [][C7_DropStep]_vars

\* with no map sink: a zone added, then removed, then a passthrough to an
\* unregistered destination, and every channel still empty
C7_Witness ==
    /\ ORBIT_DRAWER_QUEUE_NAME \notin registered
    /\ Len(handled) = 3
    /\ IsAdd(handled[1])
    /\ IsRemoveOf(handled[2], handled[1].parameters.zone.zone_id)
    /\ PassthroughCase(handled[3]) /\ handled[3].destination \notin registered
    /\ restricted_zones = EmptyDict
    /\ \A c \in ChannelNames : queues[c] = <<>>

-----------------------------------------------------------------------------
(* C8 *)

MalformedCase(e) ==
    \/ e.operation \in PhotoOps /\ ~IsPair(e.parameters)
    \/ e.operation = "add_restricted_zone" /\ e.parameters.kind # "zone"

C8_IgnoreStep ==
    (Stepped /\ MalformedCase(Ev)) =>
        /\ restricted_zones' = restricted_zones
        /\ violations' = violations
        /\ queues' = queues

\* C8: a photo event whose parameters are not a tuple or list of length at
\* least 2, and an add_restricted_zone event whose parameters are not a
\* RestrictedZone, are ignored: registry and ledger unchanged and nothing put
\* on any channel (the event is not relayed to its destination either).
C8_MalformedPayloadIgnored == [][C8_IgnoreStep]_vars

\* a malformed photo and a malformed add, both addressed to registered
\* channels, handled after a zone was added
C8_Witness ==
    /\ Len(handled) = 3
    /\ IsAdd(handled[1])
    /\ handled[2].operation \in PhotoOps /\ MalformedCase(handled[2])
    /\ handled[2].destination \in registered
    /\ handled[3].operation = "add_restricted_zone" /\ MalformedCase(handled[3])
    /\ ORBIT_DRAWER_QUEUE_NAME \in registered
    /\ Len(queues[ORBIT_DRAWER_QUEUE_NAME]) = 1
    /\ Cardinality(DOMAIN restricted_zones) = 1

-----------------------------------------------------------------------------
(* C9 *)

RemoveCase(e) == e.operation = "remove_restricted_zone" /\ e.parameters.kind = "int"

C9_RemoveStep ==
    (Stepped /\ RemoveCase(Ev)) =>
        IF Ev.parameters.id \in DOMAIN restricted_zones
        THEN /\ DOMAIN restricted_zones' = DOMAIN restricted_zones \ {Ev.parameters.id}
             /\ \A k \in DOMAIN restricted_zones' : restricted_zones'[k] = restricted_zones[k]
             /\ violations' = violations
             /\ ~raised'
        ELSE /\ restricted_zones' = restricted_zones
             /\ violations' = violations
             /\ queues' = queues
             /\ ~raised'

\* C9: remove_restricted_zone for an id not in the registry is a no-op
\* (registry and ledger unchanged, no event put on any channel, no error); for
\* an id in the registry exactly that entry is deleted and the others stay.
C9_RemoveAbsentIsNoOp == [][C9_RemoveStep]_vars

\* with the map sink registered: a zone added, an absent id removed (nothing
\* happens), then the registered id removed
C9_Witness ==
    /\ Len(handled) = 3
    /\ ORBIT_DRAWER_QUEUE_NAME \in registered
    /\ IsAdd(handled[1]) /\ handled[1].parameters.zone.zone_id = 7
    /\ RemoveCase(handled[2]) /\ handled[2].parameters.id = 8
    /\ RemoveCase(handled[3]) /\ handled[3].parameters.id = 7
    /\ restricted_zones = EmptyDict
    /\ queues[ORBIT_DRAWER_QUEUE_NAME] = <<ExpectedDraw(Z1), ExpectedClear(7)>>

-----------------------------------------------------------------------------
(* C10 *)

\* the position of the last add event for id k in h, 0 when there is none
LastAddOf(h, k) ==
    LET adds == {i \in 1..Len(h) : IsAdd(h[i]) /\ h[i].parameters.zone.zone_id = k}
    IN  IF adds = {} THEN 0 ELSE CHOOSE i \in adds : \A j \in adds : j <= i

\* id k was added and not removed since its last add
Live(h, k) ==
    /\ LastAddOf(h, k) > 0
    /\ \A j \in (LastAddOf(h, k) + 1)..Len(h) : ~IsRemoveOf(h[j], k)

ZoneIds == {z.zone_id : z \in ZonePool}

ExpectedRegistry(h) ==
    [k \in {i \in ZoneIds : Live(h, i)} |-> h[LastAddOf(h, k)].parameters.zone]

\* C10: after any sequence of handled events the registry maps each id k to
\* the zone of the most recent add_restricted_zone for k not followed by a
\* remove_restricted_zone for k, every key is the zone_id of the zone stored
\* under it, and get_restricted_zones_count() is the number of such ids.
C10_RegistryIsLastAddNotRemoved ==
    /\ restricted_zones = ExpectedRegistry(handled)
    /\ \A k \in DOMAIN restricted_zones : restricted_zones[k].zone_id = k
    /\ get_restricted_zones_count = Cardinality({k \in ZoneIds : Live(handled, k)})

\* an id added twice: the later zone replaced the earlier one
C10_Witness ==
    /\ Len(handled) = 3
    /\ handled[1].parameters = PZone(Z1) /\ IsAdd(handled[1])
    /\ handled[2].parameters = PZone(Z2) /\ IsAdd(handled[2])
    /\ handled[3].parameters = PZone(Z1b) /\ IsAdd(handled[3])
    /\ restricted_zones = (7 :> Z1b) @@ (8 :> Z2)

-----------------------------------------------------------------------------
(* C11 *)

C11_LedgerStep ==
    Stepped =>
        /\ DOMAIN violations \subseteq DOMAIN violations'
        /\ \A u \in DOMAIN violations : violations'[u] >= violations[u]
        /\ (violations' # violations =>
                /\ Ev.operation \in PhotoOps
                /\ IsPoint(Ev.parameters)
                /\ ZonesAround(restricted_zones, Ev.parameters) # {}
                /\ restricted_zones' = restricted_zones)
        /\ (BlockedCase(Ev, restricted_zones) => restricted_zones' = restricted_zones)

\* C11: across any sequence of handled events each user's violation count never
\* decreases and no user key leaves the ledger; the ledger changes only in the
\* step that blocks a photo event inside a zone (zone events, passthrough
\* operations and photo events outside all zones leave it unchanged), and the
\* blocking step leaves the zone registry unchanged.
C11_LedgerMonotone == [][C11_LedgerStep]_vars

\* two users booked: the ledger grew twice and kept the first user's count
C11_Witness ==
    /\ Len(handled) = 3
    /\ IsAdd(handled[1])
    /\ BlockedCase(handled[2], restricted_zones)
    /\ BlockedCase(handled[3], restricted_zones)
    /\ violations = ("alice" :> 1) @@ ("bob" :> 1)

-----------------------------------------------------------------------------
(* C12 *)

C12_Step ==
    /\ (snapshot'.calls # snapshot.calls =>
            /\ snapshot'.d = violations
            /\ violations' = violations)
    /\ (snapshot'.writes # snapshot.writes => violations' = violations)
    /\ (Stepped => snapshot'.d = snapshot.d)

\* C12: get_violation_stats() returns a snapshot equal to the ledger at the
\* time of the call; adding, changing or deleting entries in the returned
\* mapping does not change the monitor's ledger, and violations recorded later
\* do not change a snapshot returned earlier.
C12_StatsIsACopy == [][C12_Step]_vars

\* a snapshot taken at one violation, written to by the caller, and one more
\* violation recorded since
C12_Witness ==
    /\ snapshot.calls = 1
    /\ snapshot.writes = 1
    /\ snapshot.d = ("alice" :> 1) @@ ("mallory" :> 7)
    /\ violations = ("alice" :> 2)

-----------------------------------------------------------------------------
(* C13 *)

Constructed == ctor_error = "ok"
ConstructorCalled == ctor_error # "not called"

LatitudesValid(a) ==
    /\ -90 <= a.lat_bot_left /\ a.lat_bot_left <= 90
    /\ -90 <= a.lat_top_right /\ a.lat_top_right <= 90
    /\ a.lat_bot_left < a.lat_top_right

LongitudesInRange(a) ==
    /\ -180 <= a.lon_bot_left /\ a.lon_bot_left <= 180
    /\ -180 <= a.lon_top_right /\ a.lon_top_right <= 180

SeverityValid(a) == a.severity_level \in 1..3

\* C13: a zone constructed with lon_bot_left = -10 and lon_top_right = 10 and
\* valid latitudes exists, and on it contains(lat, 5) is true and
\* contains(lat, 15) is false for every lat within its latitude interval.
C13_ZoneAcrossGreenwich ==
    (/\ ConstructorCalled
     /\ ctor_args.lon_bot_left = -10 /\ ctor_args.lon_top_right = 10
     /\ LatitudesValid(ctor_args) /\ SeverityValid(ctor_args))
    => /\ Constructed
       /\ (/\ query.op = "contains"
           /\ the_zone.lat_bot_left <= query.lat /\ query.lat <= the_zone.lat_top_right)
          => /\ (query.lon = 5 => query.holds)
             /\ (query.lon = 15 => ~query.holds)

-----------------------------------------------------------------------------
(* C14 *)

\* going east from lon_bot_left, lon_top_right lies beyond the +-180 seam
CrossesSeam(a) == a.lon_bot_left > a.lon_top_right

\* C14: for in-range corner values the constructor rejects every zone whose
\* extent from lon_bot_left eastward to lon_top_right crosses the +-180 seam,
\* and the longitude-ordering check rejects no zone that does not cross the
\* seam and has lon_bot_left < lon_top_right.
C14_SeamZonesRejected ==
    (/\ ConstructorCalled
     /\ LatitudesValid(ctor_args) /\ LongitudesInRange(ctor_args))
    => /\ (CrossesSeam(ctor_args) => ~Constructed)
       /\ (ctor_args.lon_bot_left < ctor_args.lon_top_right => ctor_error # "longitude_order")

-----------------------------------------------------------------------------
(* C15 *)

FiveConditions(a) ==
    /\ a.lat_bot_left \in -90..90 /\ a.lat_top_right \in -90..90
    /\ a.lon_bot_left \in -180..180 /\ a.lon_top_right \in -180..180
    /\ a.lat_bot_left < a.lat_top_right
    /\ (a.lon_bot_left + 360) % 360 < (a.lon_top_right + 360) % 360
    /\ a.severity_level \in 1..3

C15_WitnessRejected ==
    /\ ctor_args.lat_bot_left = 10 /\ ctor_args.lat_top_right = 5
    /\ ctor_error = "latitude_order"

-----------------------------------------------------------------------------
(* C16 *)

Restored == restored_error # "not called"
Tampered == data # NoData /\ data # ToDict(the_zone)

\* C16: for every constructible zone z, from_dict(to_dict(z)) succeeds and
\* yields a zone equal to z in zone_id, the four corners, description and
\* severity_level, whose center and area equal those computed on z; the
\* dictionary's center, area and severity_description entries are those
\* computed on z, and from_dict does not read them: changing them does not
\* change the reproduced zone.
C16_DictRoundTrip ==
    /\ (data # NoData /\ ~Tampered) =>
          /\ data.center = GetCenter(the_zone)
          /\ data.area = GetArea(the_zone)
          /\ data.severity_description = GetSeverityDescription(the_zone)
    /\ Restored =>
          /\ restored_error = "ok"
          /\ restored = the_zone
          /\ GetCenter(restored) = GetCenter(the_zone)
          /\ GetArea(restored) = GetArea(the_zone)

\* a round trip through a dictionary whose derived entries were overwritten
C16_Witness ==
    /\ Restored
    /\ Tampered
    /\ the_zone.severity_level = 3
    /\ restored = the_zone

-----------------------------------------------------------------------------
(* C17 *)

\* C17: on a zone the constructor accepted, contains and get_area take the
\* non-wrapping branch; contains(lat, lon) equals lat_bot_left <= lat <=
\* lat_top_right and left_norm <= (lon + 360) mod 360 <= right_norm, and
\* get_area equals (lat_top_right - lat_bot_left) * (right_norm - left_norm),
\* which is strictly positive.
C17_WrapBranchUnreachable ==
    LET left_norm == (the_zone.lon_bot_left + 360) % 360
        right_norm == (the_zone.lon_top_right + 360) % 360
    IN  /\ query.op # "none" => ~query.wrap /\ left_norm <= right_norm
        /\ query.op = "contains" =>
              query.holds <=>
                  /\ the_zone.lat_bot_left <= query.lat /\ query.lat <= the_zone.lat_top_right
                  /\ left_norm <= (query.lon + 360) % 360
                  /\ (query.lon + 360) % 360 <= right_norm
        /\ query.op = "get_area" =>
              /\ query.area = (the_zone.lat_top_right - the_zone.lat_bot_left)
                                  * (right_norm - left_norm)
              /\ query.area > 0

\* the accepted zone from 170 to -170: the point on the seam is inside it
C17_Witness ==
    /\ the_zone.lon_bot_left = 170 /\ the_zone.lon_top_right = -170
    /\ query.op = "contains" /\ query.lon = 180 /\ query.holds

C17_WitnessArea ==
    /\ query.op = "get_area"
    /\ query.area = 5 * 20

-----------------------------------------------------------------------------
(* C18 *)

IntervalsOverlap(lo1, hi1, lo2, hi2) == lo1 <= hi2 /\ lo2 <= hi1

RawOrdered(z) == z.lon_bot_left < z.lon_top_right

\* C18: for two constructed zones a and b with raw lon_bot_left <
\* lon_top_right, a.intersects(b) is true if and only if their raw latitude
\* intervals overlap and their raw longitude intervals overlap, and
\* a.intersects(b) = b.intersects(a).
C18_IntersectsIsRectangleOverlap ==
    (other.called /\ RawOrdered(the_zone) /\ RawOrdered(other.zone))
    => /\ other.result <=>
              /\ IntervalsOverlap(the_zone.lat_bot_left, the_zone.lat_top_right,
                                  other.zone.lat_bot_left, other.zone.lat_top_right)
              /\ IntervalsOverlap(the_zone.lon_bot_left, the_zone.lon_top_right,
                                  other.zone.lon_bot_left, other.zone.lon_top_right)
       /\ other.result = other.reverse

-----------------------------------------------------------------------------
(* C19 *)

\* the event is dropped: its payload is malformed for its operation, or the
\* one channel the handling would put an event on is not registered
DroppedCase(e, zs, reg) ==
    \/ MalformedCase(e)
    \/ ForwardsTo(e, zs) # {} /\ ForwardsTo(e, zs) \cap reg = {}

C19_DropStep ==
    (Stepped /\ ~raised' /\ DroppedCase(Ev, restricted_zones, registered)) => nlogs' > nlogs

\* C19: every event the monitor drops because its payload is malformed for its
\* operation, or because the destination or map-sink channel is unregistered,
\* produces at least one log entry during its handling.
C19_NoSilentDrop == [][C19_DropStep]_vars

-----------------------------------------------------------------------------
(* C20 *)

Before(h, i) == SubSeq(h, 1, i - 1)

\* the ledger of a one-at-a-time handling of h: a photo event counts when its
\* point lies in a zone added and not removed before it
ExpectedLedgerCount(h, u) ==
    Cardinality({i \in 1..Len(h) : /\ BlockedCase(h[i], ExpectedRegistry(Before(h, i)))
                                   /\ ExpectedUser(h[i].extra_parameters) = u})

\* what handling e in registry zs puts on channel c of directory reg
ExpectedPut(e, zs, reg, c) ==
    IF c \notin reg THEN <<>>
    ELSE IF c = ORBIT_DRAWER_QUEUE_NAME /\ ForwardCase(e, zs) THEN <<ExpectedPhotoMapEvent(e)>>
    ELSE IF c = ORBIT_DRAWER_QUEUE_NAME /\ IsAdd(e) THEN <<ExpectedDraw(e.parameters.zone)>>
    ELSE IF c = ORBIT_DRAWER_QUEUE_NAME /\ RemoveCase(e) /\ e.parameters.id \in DOMAIN zs
    THEN <<ExpectedClear(e.parameters.id)>>
    ELSE IF PassthroughCase(e) /\ e.destination = c THEN <<e>>
    ELSE <<>>

RECURSIVE ExpectedOn(_, _, _)
ExpectedOn(h, reg, c) ==
    IF h = <<>> THEN <<>>
    ELSE ExpectedOn(Before(h, Len(h)), reg, c)
             \o ExpectedPut(h[Len(h)], ExpectedRegistry(Before(h, Len(h))), reg, c)

FromProducer(p, e) == e.source = Programs[p][1].source

\* C20: with several producers putting events on the monitor's channel
\* concurrently, the registry, the ledger and the events emitted are those of
\* handling the delivered events one at a time in delivery order, each
\* producer's events are delivered in the order it put them, a photo event
\* delivered after an add_restricted_zone for a zone containing its point is
\* blocked and one delivered after the matching remove_restricted_zone is
\* forwarded.
C20_OneAtATimeInDeliveryOrder ==
    /\ restricted_zones = ExpectedRegistry(handled)
    /\ \A u \in {"alice", "bob", "unknown"} :
          CountOf(violations, u) = ExpectedLedgerCount(handled, u)
    /\ \A c \in ChannelNames \ {SECURITY_MONITOR_QUEUE_NAME} :
          queues[c] = ExpectedOn(handled, registered, c)
    /\ \A p \in Producers :
          SelectSeq(handled \o Inbox, LAMBDA e : FromProducer(p, e)) \o pending[p] = Programs[p]
    /\ ~raised

\* a photo blocked by the zone added before it, while the remove that another
\* step of the same producer put is still waiting in the channel
C20_Witness ==
    /\ Len(handled) = 2
    /\ IsAdd(handled[1])
    /\ BlockedCase(handled[2], ExpectedRegistry(Before(handled, 2)))
    /\ violations = ("alice" :> 1)
    /\ Len(Inbox) = 1
    /\ IsRemoveOf(Inbox[1], 7)

\* the photo put before the remove and delivered after it is forwarded
C20_WitnessForwarded ==
    /\ Len(handled) = 3
    /\ IsAdd(handled[1])
    /\ IsRemoveOf(handled[2], 7)
    /\ ForwardCase(handled[3], restricted_zones)
    /\ violations = EmptyDict
    /\ ORBIT_DRAWER_QUEUE_NAME \in registered
    /\ Len(queues[ORBIT_DRAWER_QUEUE_NAME]) = 3

-----------------------------------------------------------------------------
(* C21 *)

StopQueued ==
    \E i \in 1..Len(orbit.control_q) : orbit.control_q[i] = ControlEvent("stop")

Exited == orbit.pc = "exited"

\* the flag rises only in the step that takes a ControlEvent 'stop' off the
\* control queue, and never falls
C21_QuitStep ==
    /\ (orbit'.quit /\ ~orbit.quit) =>
          /\ orbit.control_q # <<>>
          /\ Head(orbit.control_q) = ControlEvent("stop")
          /\ orbit'.control_q = Tail(orbit.control_q)
    /\ orbit.quit => orbit'.quit

\* the loop is left only at its test, with the flag set and no event in hand
C21_ExitStep ==
    (orbit'.pc = "exited" /\ orbit.pc # "exited") =>
        /\ orbit.quit
        /\ orbit.inflight = <<>>
        /\ orbit.pc = "while"

\* C21: in OrbitControl.run, once a ControlEvent 'stop' is on the control
\* channel the loop eventually exits (fair scheduling, finitely many queued
\* items); the quit flag is set only by such a stop event; an event whose
\* handling has begun is fully handled before the loop exits.
C21_StopEndsLoop ==
    /\ StopQueued ~> Exited
    /\ [][C21_QuitStep /\ C21_ExitStep]_vars
    /\ [](Exited => orbit.quit /\ orbit.inflight = <<>>)

\* the loop has exited after other control requests and events were worked through
C21_Witness ==
    /\ Exited
    /\ orbit.sent = 3
    /\ orbit.control_q = <<>>
    /\ Len(orbit.taken) = 1
    /\ EventsQ = <<>>

-----------------------------------------------------------------------------
(* C26 *)

OrbitInbox == queues[SECURITY_MONITOR_QUEUE_NAME]

MonitorRegistered == SECURITY_MONITOR_QUEUE_NAME \in registered

\* the relay the claim describes for request e
ExpectedRelay(e) ==
    [source |-> ORBIT_CONTROL_QUEUE_NAME, destination |-> SATELITE_QUEUE_NAME,
     operation |-> "change_orbit",
     parameters |-> PTuple(<<e.parameters.items[1], e.parameters.items[2],
                             e.parameters.items[3]>>),
     extra_parameters |-> XNone,
     signature |-> OrbitSignature(e.parameters.items)]

\* the events whose handling is over, in the order they were dequeued
Worked == SubSeq(orbit.taken, 1, Len(orbit.taken) - Len(orbit.inflight))

RECURSIVE RelaysOf(_)
RelaysOf(h) ==
    IF h = <<>> THEN <<>>
    ELSE RelaysOf(SubSeq(h, 1, Len(h) - 1))
            \o (IF h[Len(h)].operation = "change_orbit" /\ UnpacksToThree(h[Len(h)].parameters)
                THEN <<ExpectedRelay(h[Len(h)])>> ELSE <<>>)

ChangeOrbitsOf(h) == SelectSeq(h, LAMBDA e : e.operation = "change_orbit")

\* C26 as stated: with the monitor's channel registered, every change_orbit
\* event dequeued has exactly one relay on the monitor's inbound channel.
C26_EveryChangeOrbitRelayed ==
    MonitorRegistered => Len(OrbitInbox) = Len(ChangeOrbitsOf(Worked))

\* C26, amended: with the monitor's channel registered, each change_orbit event
\* dequeued whose parameters are a sequence of exactly three values puts exactly
\* one change_orbit event on the monitor's inbound channel, with source orbit
\* control's identity, destination the satellite channel and the same three
\* values, in the order the requests were dequeued; a change_orbit event with
\* any other payload, and an event with any other operation, puts nothing.
C26_WellFormedChangeOrbitRelayed ==
    /\ MonitorRegistered => OrbitInbox = RelaysOf(Worked)
    /\ ~MonitorRegistered => OrbitInbox = <<>>
    /\ \A c \in ChannelNames \ {SECURITY_MONITOR_QUEUE_NAME, ORBIT_CONTROL_QUEUE_NAME} :
          queues[c] = <<>>

\* two requests relayed in the order they were dequeued, one event of another
\* operation between them
C26_Witness ==
    /\ MonitorRegistered
    /\ Len(Worked) = 3
    /\ Worked[2].operation = "request_photo"
    /\ Len(OrbitInbox) = 2
    /\ OrbitInbox[1].parameters.items[1] = Num(300000)
    /\ OrbitInbox[2].parameters.items[1] = Num(200000)

-----------------------------------------------------------------------------
(* C22 *)

CmdStepped == processed' # processed
Cmd == processed'[Len(processed')].cmd
CmdResult == processed'[Len(processed')].result

\* the corners an ADD ZONE command hands to the constructor
CornersOf(args) ==
    [zone_id |-> args[1],
     lat_bot_left |-> IF args[2] <= args[4] THEN args[2] ELSE args[4],
     lon_bot_left |-> IF args[3] <= args[5] THEN args[3] ELSE args[5],
     lat_top_right |-> IF args[2] >= args[4] THEN args[2] ELSE args[4],
     lon_top_right |-> IF args[3] >= args[5] THEN args[3] ELSE args[5],
     description |-> "added by alice", severity_level |-> 3]

InvalidAddZone(cmd) ==
    cmd.name = "ADD ZONE" /\ Len(cmd.args) = 5 /\ ~FiveConditions(CornersOf(cmd.args))

ValidOrbit(args) ==
    /\ Len(args) = 3
    /\ args[1] \in 160000..2000000 /\ args[2] \in -314..314 /\ args[3] \in -157..157

PermittedByTable(r, name) ==
    \/ name = "MAKE PHOTO" /\ r \in {1, 2, 3}
    \/ name = "ORBIT" /\ r \in {2, 3}
    \/ name \in {"ADD ZONE", "REMOVE ZONE"} /\ r = 3

\* how the loop of run ends its iteration over cmd for role r
ExpectedResult(cmd, r) ==
    IF ~PermittedByTable(r, cmd.name) THEN "denied"
    ELSE IF cmd.name = "ORBIT" /\ ~ValidOrbit(cmd.args) THEN "error"
    ELSE IF InvalidAddZone(cmd) THEN "error"
    ELSE "executed"

ClientEventsOn(c, op) ==
    {i \in 1..Len(queues[c]) : queues[c][i].source = ClientSource /\ queues[c][i].operation = op}

C22_RejectStep ==
    /\ (CmdStepped /\ role = 3 /\ InvalidAddZone(Cmd)) =>
          /\ queues' = queues
          /\ command_counter' = command_counter
          /\ CmdResult = "error"
    /\ (CmdStepped /\ Len(processed) > 0 /\ processed[Len(processed)].result = "error") =>
          /\ CmdResult = ExpectedResult(Cmd, role)
          /\ (CmdResult = "executed" /\ SECURITY_MONITOR_QUEUE_NAME \in registered) =>
                Len(queues'[SECURITY_MONITOR_QUEUE_NAME])
                    = Len(queues[SECURITY_MONITOR_QUEUE_NAME]) + 1

\* C22: an ADD ZONE command whose corners violate a construction invariant is
\* rejected alone: no event is put for it, the command counter stays, run goes
\* on (the failure is recorded, not propagated) and every later command is
\* processed as it would have been; every zone the interpreter has put on the
\* monitor's channel satisfies the construction invariants.
C22_InvalidZoneRejectedAlone ==
    /\ [][C22_RejectStep]_vars
    /\ [](\A i \in ClientEventsOn(SECURITY_MONITOR_QUEUE_NAME, "add_restricted_zone") :
             FiveConditions(queues[SECURITY_MONITOR_QUEUE_NAME][i].parameters.zone))

\* the administrator's program: a rejected ADD ZONE between two accepted ones
C22_Witness ==
    /\ role = 3
    /\ Len(processed) = 3
    /\ processed[1].result = "executed"
    /\ InvalidAddZone(processed[2].cmd) /\ processed[2].result = "error"
    /\ processed[3].cmd.name = "ADD ZONE" /\ processed[3].result = "executed"
    /\ command_counter = 2
    /\ Len(queues[SECURITY_MONITOR_QUEUE_NAME]) = 2

-----------------------------------------------------------------------------
(* C24 *)

CommandNames == {cmd.name : cmd \in Commands}

C24_DenyStep ==
    /\ (CmdStepped /\ ~PermittedByTable(role, Cmd.name)) =>
          /\ queues' = queues
          /\ command_counter' = command_counter
          /\ CmdResult = "denied"
    /\ (CmdStepped /\ queues' # queues) => PermittedByTable(role, Cmd.name)
    /\ (CmdStepped /\ Len(processed) > 0 /\ processed[Len(processed)].result = "denied") =>
          CmdResult = ExpectedResult(Cmd, role)

\* C24: the interpreter puts an event for a command only if the role is
\* permitted for the command name (MAKE PHOTO: 1, 2, 3; ORBIT: 2, 3; ADD ZONE
\* and REMOVE ZONE: 3; anything else denied); a denied command puts nothing and
\* later commands are still processed; _is_allowed agrees with
\* permissions.allowed on every (role, command) pair; no add_restricted_zone
\* or remove_restricted_zone event comes from a user whose role is not 3.
C24_OnlyPermittedCommandsSend ==
    /\ [][C24_DenyStep]_vars
    /\ [](\A r \in -1..4 : \A name \in CommandNames \cup {"", "orbit"} :
             /\ IsAllowed(r, name) = allowed(r, name)
             /\ IsAllowed(r, name) = PermittedByTable(r, name))
    /\ [](\A c \in ChannelNames :
             ClientEventsOn(c, "add_restricted_zone")
                 \cup ClientEventsOn(c, "remove_restricted_zone") # {} => role = 3)

\* the VIP's program: ADD ZONE denied, then an ORBIT command sent
C24_Witness ==
    /\ role = 2
    /\ Len(processed) = 2
    /\ processed[1].cmd.name = "ADD ZONE" /\ processed[1].result = "denied"
    /\ processed[2].cmd.name = "ORBIT" /\ processed[2].result = "executed"
    /\ Len(queues[SECURITY_MONITOR_QUEUE_NAME]) = 1

-----------------------------------------------------------------------------
(* C23 *)

\* C23: for every constructible zone z the point get_center() returns lies
\* inside the zone: z.contains(*z.get_center()) is true.
C23_CenterInsideZone == query.op = "contains_center" => query.holds

-----------------------------------------------------------------------------
(* C25 *)

Scheduled(id) == \E i \in 1..Len(sched.scheduled_commands) : sched.scheduled_commands[i].id = id
RanOk(id) == \E i \in 1..Len(sched.ran) : sched.ran[i].id = id /\ sched.ran[i].ok
OffsetOf(id) ==
    LET i == CHOOSE j \in 1..Len(sched.scheduled_commands) : sched.scheduled_commands[j].id = id
    IN  sched.scheduled_commands[i].time_offset
NeverFails(id) ==
    \A i \in 1..Len(sched.scheduled_commands) :
        sched.scheduled_commands[i].id = id => ~sched.scheduled_commands[i].fails

C25_Safe ==
    /\ \A i \in 1..(Len(sched.scheduled_commands) - 1) :
          sched.scheduled_commands[i].time_offset <= sched.scheduled_commands[i + 1].time_offset
    /\ \A i, j \in 1..Len(sched.ran) :
          (i < j /\ sched.ran[i].ok) => sched.ran[i].id # sched.ran[j].id
    /\ \A i \in 1..Len(sched.ran) : sched.ran[i].at >= OffsetOf(sched.ran[i].id)
    /\ sched.executed_commands = {sched.ran[i].id : i \in {j \in 1..Len(sched.ran) : sched.ran[j].ok}}

\* the loop ends by itself only when every scheduled command has run
C25_FinishStep ==
    (sched'.thread = "finished" /\ sched.thread = "running") =>
        \A i \in 1..Len(sched.scheduled_commands) :
            sched.scheduled_commands[i].id \in sched'.executed_commands

\* C25: after start() the scheduler runs every scheduled command exactly once,
\* not before its time_offset, in non-decreasing time_offset order (the
\* schedule is sorted after every add_command); when every command has run
\* successfully the loop terminates; a command whose callable raises is not
\* counted as executed.
C25_EveryCommandRunsOnce ==
    /\ []C25_Safe
    /\ [][C25_FinishStep]_vars
    /\ \A id \in 1..MaxCommands :
          (sched.thread = "running" /\ Scheduled(id) /\ NeverFails(id))
              ~> (RanOk(id) \/ ~sched.running)

====
